---------------------------- MODULE Spec2Model ----------------------------
(***************************************************************************)
(* A model of the lazy component registry (common/components.py), of the   *)
(* configuration-driven registration (common/component_config.py) and of   *)
(* the database pool global (common/models/sql.py).                        *)
(*                                                                         *)
(* Spec     : registry operations executed one after another.              *)
(* SpecPar  : get_component("database") executed by parallel worker        *)
(*            threads, one statement of get_component per step.            *)
(***************************************************************************)
EXTENDS Integers, Sequences, FiniteSets, TLC

(* ------------------------------ bounds -------------------------------- *)

\* Objects (component instances, pools) that may be created in one run.
MaxObjects == 3

\* Registry operations performed in one run of Spec.
MaxOps == 4

\* Worker threads of SpecPar.
NumThreads == 2

\* Requests of SpecPipe.
NumRequests == 2

\* Headers a request of SpecId carries.
MaxHeaders == 2

\* Times the handler of SpecBody reads the body of its request.
MaxReads == 2

\* Callers that run a with get_db_session() block in SpecSession.
NumCallers == 2

(* --------------------------- value universe --------------------------- *)

\* Names given to the registration operations.
RegNames == {"database", "mysql"}

\* Names given to get_component / has_component and found in configurations.
AllNames == RegNames \cup {"svc"}

\* A Python callable: the function and the host:port its closure captured.
Callable(fn, hp) == [fn |-> fn, host_port |-> hp]

\* cleanup_callback=None, the default of the optional parameter.
NoCallback == Callable("None", "")

\* The module global _engine when it is None.
NoEngine == 0

\* Exception classes a callable of the model may raise.
KeyErrorCls == "KeyError"
RuntimeErrorCls == "RuntimeError"
OtherErrorCls == "OperationalError"

VARIABLES
    component_registry,             \* _component_registry: name -> instance
    component_factories,            \* _component_factories: name -> factory
    factory_registration_functions, \* _factory_registration_functions
    cleanup_callbacks,              \* _cleanup_callbacks: name -> callback
    component_metadata,             \* _component_metadata: name -> list (its identity)
    heap,                           \* the list objects: identity -> items
    returned,                       \* the dict a caller got from get_component_metadata
    engine,                         \* common.models.sql._engine
    disposed,                       \* pools on which dispose() was called
    nextObj,                        \* identity of the next object created
    ops,                            \* operations performed so far (Spec)
    last,                           \* the operation just performed and its outcome
    calls,                          \* callables invoked by that operation, in order
    first_resolved,                 \* name -> instance its first successful factory-tier
                                    \* get_component returned, since the last clear
    reregistered,                   \* names given to register_component since the last clear
    before,                         \* the preceding operation, when it and the one just
                                    \* performed are get_component of the same name
    pc,                             \* SpecPar: position of each thread
    local,                          \* SpecPar: locals of each thread's get_component
    stopped,                        \* SpecPar: the server has shut down
    request_id_var,                 \* server.logger.request_id_var: task -> binding
    rq,                             \* SpecPipe: where each request is, and its locals
    events,                         \* SpecPipe: what happened to each request, in order
    sent,                           \* SpecPipe: the response each client got
    outside,                        \* SpecPipe: request IDs seen outside every request
    given,                          \* SpecId: the headers and the UUID at hand
    chosen,                         \* SpecId: the request ID chosen for them
    logged,                         \* SpecLog: the incoming-request log record written
    parsed,                         \* SpecLog: a body and what the parsers made of it
    sess,                           \* SpecSession: the with get_db_session() block of each caller
    body_got,                       \* SpecGetBody: a request and what get_body gave for it
    env_load,                       \* SpecEnv: the config files, Env and what loading did
    users_table,                    \* SpecUsers: the users table of the database
    creators                        \* SpecUsers: the create_user call of each caller

registryVars == <<component_registry, component_factories,
                  factory_registration_functions, cleanup_callbacks,
                  component_metadata, heap>>
poolVars == <<engine, disposed>>
historyVars == <<calls, first_resolved, reregistered, before>>
parVars == <<pc, local, stopped>>
callerVars == <<returned>>
pipeVars == <<request_id_var, rq, events, sent, outside>>
idVars == <<given, chosen>>
logVars == <<logged, parsed>>
sessVars == <<sess>>
getVars == <<body_got>>
envVars == <<env_load>>
userVars == <<users_table, creators>>
vars == <<component_registry, component_factories,
          factory_registration_functions, cleanup_callbacks,
          component_metadata, heap, returned, engine, disposed, nextObj, ops,
          last, calls, first_resolved, reregistered, before, pc, local,
          stopped, request_id_var, rq, events, sent, outside, given, chosen,
          logged, parsed, sess,
          body_got, env_load, users_table, creators>>

(* ------------------------------ helpers ------------------------------- *)

\* A Python dict is a function on the set of its keys.
EmptyDict == <<>>

\* d[k] = v
Put(d, k, v) == (k :> v) @@ d

Has(d, k) == k \in DOMAIN d

\* An exception object: its class, what the message says, the component
\* name the message carries and the names it lists.
Exc(cls, kind, name, available) ==
    [cls |-> cls, kind |-> kind, name |-> name, available |-> available]

NoExc == Exc("", "", "", {})

\* What a call handed to its caller: a value, or an exception.
Returned(v) == [ok |-> TRUE, val |-> v, err |-> NoExc]
Raised(e) == [ok |-> FALSE, val |-> 0, err |-> e]

\* The exception a callable of the model raises on its own account.
RaisedByCallable(cls) == Exc(cls, "raised_by_callable", "", {})

(* ------------------- the registry as a value (a snapshot) ------------- *)

\* The module globals the registry operations read and write.
St ==
    [reg |-> component_registry,
     fac |-> component_factories,
     rf |-> factory_registration_functions,
     cb |-> cleanup_callbacks,
     meta |-> component_metadata,
     heap |-> heap,
     engine |-> engine,
     disposed |-> disposed,
     nextObj |-> nextObj]

\* One entry of a component's metadata list.
Entry(host, status) == [host |-> host, status |-> status]

\* The identity a list object gets when it is created.
NewRef(hp) ==
    CHOOSE r \in 1..(Cardinality(DOMAIN hp) + 1) :
        r \notin DOMAIN hp /\ \A q \in 1..(r - 1) : q \in DOMAIN hp

\* The values behind a dict of lists: name -> items.
Deref(hp, d) == [n \in DOMAIN d |-> hp[d[n]]]

\* The list objects something still refers to.
Live(hp, roots) == [r \in DOMAIN hp \cap roots |-> hp[r]]

Range(d) == {d[k] : k \in DOMAIN d}

(* ------------------------ common/models/sql.py ------------------------ *)

\* init_connection_pool(): create_engine raises (the exception is logged and
\* re-raised, _engine keeps its value) or _engine becomes a new pool.
init_connection_pool(s, fo) ==
    IF fo = "ok"
    THEN [s |-> [s EXCEPT !.engine = s.nextObj, !.nextObj = @ + 1],
          res |-> Returned(0)]
    ELSE [s |-> s, res |-> Raised(RaisedByCallable(fo))]

\* get_engine(): the pool in _engine, RuntimeError when there is none.
get_engine(s) ==
    IF s.engine = NoEngine
    THEN Raised(Exc(RuntimeErrorCls, "pool_not_initialized", "", {}))
    ELSE Returned(s.engine)

\* close_connection_pool(): dispose the pool in _engine, if any; _engine = None.
close_connection_pool(s) ==
    [s EXCEPT !.disposed = IF s.engine # NoEngine THEN @ \cup {s.engine} ELSE @,
              !.engine = NoEngine]

\* What a call raises when it raises nothing.
NoException == ""

\* isinstance(exc, Exception): KeyboardInterrupt, SystemExit and
\* GeneratorExit derive from BaseException only.
IsException(exc) ==
    exc \notin {NoException, "KeyboardInterrupt", "commit: KeyboardInterrupt"}

\* get_session(): what it raises; it returns _SessionLocal() unless
\* _SessionLocal is None, which it is exactly when _engine is.
get_session(s) ==
    IF s.engine = NoEngine THEN "RuntimeError" ELSE NoException

\* Variant: the session is closed after the commit, not in a finally.
get_db_session_without_finally(block, commit, rollback) ==
    IF block = NoException /\ commit = NoException
    THEN [calls |-> <<"commit", "close">>, raises |-> NoException]
    ELSE [calls |-> (IF block = NoException THEN <<"commit">> ELSE <<>>)
                        \o <<"rollback">>,
          raises |-> IF block # NoException THEN block ELSE commit]

\* get_db_session() from the end of the caller's with block on: block is
\* what the block raised, commit and rollback what session.commit() and
\* session.rollback() raise if they are called. Gives the calls made on the
\* session, in order, and what leaves the with statement.
get_db_session(block, commit, rollback) ==
    LET tried == IF block = NoException THEN <<"commit">> ELSE <<>>
        raised == IF block # NoException THEN block ELSE commit
    IN  IF raised = NoException
        THEN [calls |-> tried \o <<"close">>, raises |-> NoException]
        ELSE IF IsException(raised)
        THEN [calls |-> tried \o <<"rollback", "close">>,
              raises |-> IF rollback # NoException THEN rollback ELSE raised]
        ELSE [calls |-> tried \o <<"close">>, raises |-> raised]

\* The callers that run a with get_db_session() block.
Callers == 1..NumCallers

\* A caller that has not entered its with statement.
NoSession ==
    [pc |-> "idle", acquired |-> FALSE, block |-> NoException,
     commit |-> NoException, rollback |-> NoException, calls |-> <<>>,
     raises |-> NoException]

(* ------------------------ common/components.py ------------------------ *)

\* d without key k
Remove(d, k) == [x \in DOMAIN d \ {k} |-> d[x]]

\* Variant: registering a factory also drops the instance cached under name.
register_component_factory_evicting(s, name, factory, cleanup_callback) ==
    [s EXCEPT !.fac = Put(@, name, factory),
              !.reg = Remove(@, name),
              !.cb = IF cleanup_callback # NoCallback
                     THEN Put(@, name, cleanup_callback)
                     ELSE @]

\* Variant: the cleanup slot is written even when no cleanup is given.
register_component_factory_always_cleanup(s, name, factory, cleanup_callback) ==
    [s EXCEPT !.fac = Put(@, name, factory),
              !.cb = Put(@, name, cleanup_callback)]

\* register_component_factory(name, factory, cleanup_callback=None)
register_component_factory(s, name, factory, cleanup_callback) ==
    [s EXCEPT !.fac = Put(@, name, factory),
              !.cb = IF cleanup_callback # NoCallback
                     THEN Put(@, name, cleanup_callback)
                     ELSE @]

\* register_factory_registration_function(name, registration_func)
register_factory_registration_function(s, name, registration_func) ==
    [s EXCEPT !.rf = Put(@, name, registration_func)]

\* register_component(name, component, cleanup_callback=None)
register_component(s, name, component, cleanup_callback) ==
    [s EXCEPT !.reg = Put(@, name, component),
              !.cb = IF cleanup_callback # NoCallback
                     THEN Put(@, name, cleanup_callback)
                     ELSE @]

\* set_component_metadata(component_name, metadata): the dict keeps the
\* list object it is handed.
set_component_metadata(s, component_name, metadata) ==
    [s EXCEPT !.meta = Put(@, component_name, metadata)]

\* get_component_metadata(): _component_metadata.copy(), a new dict whose
\* values are the list objects of the registry.
get_component_metadata(s) == s.meta

\* has_component(name)
has_component(s, name) ==
    Has(s.reg, name) \/ Has(s.fac, name) \/ Has(s.rf, name)

\* Variant: the factories survive the clear.
clear_registry_keeping_factories(s) ==
    [s EXCEPT !.reg = EmptyDict, !.rf = EmptyDict, !.cb = EmptyDict,
              !.meta = EmptyDict]

\* clear_registry()
clear_registry(s) ==
    [s EXCEPT !.reg = EmptyDict, !.fac = EmptyDict, !.rf = EmptyDict,
              !.cb = EmptyDict, !.meta = EmptyDict]

(* --------------------- common/component_config.py --------------------- *)

\* _update_component_status(component_name, host, status): the items of
\* the list object are written in place, and the same list is set again.
_update_component_status(s, component_name, host, status) ==
    LET metadata == get_component_metadata(s) IN
    IF Has(metadata, component_name)
    THEN LET list == metadata[component_name]
             s1 == [s EXCEPT !.heap[list] =
                       [i \in DOMAIN @ |->
                           IF @[i].host = host
                           THEN [@[i] EXCEPT !.status = status]
                           ELSE @[i]]]
         IN  set_component_metadata(s1, component_name, list)
    ELSE s

\* create_mysql(), the factory closure of _register_mysql_factory: fo is what
\* init_connection_pool does ("ok" or the class of the exception it raises).
create_mysql(s, host_port, fo) ==
    LET p == init_connection_pool(s, fo) IN
    IF ~p.res.ok THEN p
    ELSE LET e == get_engine(p.s) IN
         IF ~e.ok THEN [s |-> p.s, res |-> e]
         ELSE [s |-> _update_component_status(p.s, "mysql", host_port, "up"),
               res |-> e]

\* close_connection_pool as a registered cleanup callback.
CloseConnectionPool == Callable("close_connection_pool", "")

\* register_mysql_factory(), the registrar closure of _register_mysql_factory.
register_mysql_factory(s, host_port) ==
    register_component_factory(s, "database",
        Callable("create_mysql", host_port), CloseConnectionPool)

(* ------------------- callables handed to the registry ----------------- *)

\* Any other zero-argument factory: it returns a new object or raises.
make_component(s, fo) ==
    IF fo = "ok"
    THEN [s |-> [s EXCEPT !.nextObj = @ + 1], res |-> Returned(s.nextObj)]
    ELSE [s |-> s, res |-> Raised(RaisedByCallable(fo))]

\* factory(): the call of a stored factory.
InvokeFactory(s, factory, fo) ==
    IF factory.fn = "create_mysql"
    THEN create_mysql(s, factory.host_port, fo)
    ELSE make_component(s, fo)

\* What a call of the factory can do.
FactoryOutcomes(factory) ==
    IF factory.fn = "create_mysql"
    THEN {"ok", OtherErrorCls}
    ELSE {"ok", KeyErrorCls, RuntimeErrorCls}

\* registration_func(): the call of a stored registrar. Besides the
\* repository's register_mysql_factory the model knows a registrar that
\* registers nothing and one that raises.
InvokeRegistrar(s, registration_func) ==
    CASE registration_func.fn = "register_mysql_factory" ->
            [s |-> register_mysql_factory(s, registration_func.host_port),
             res |-> Returned(0)]
      [] registration_func.fn = "raising_registrar" ->
            [s |-> s, res |-> Raised(RaisedByCallable(OtherErrorCls))]
      [] OTHER -> [s |-> s, res |-> Returned(0)]

\* One invocation of a callable by the registry.
Call(kind, name, fn) == [kind |-> kind, name |-> name, fn |-> fn]

(* ------------------ common/components.py: get_component --------------- *)

\* Variant: the created component is not stored.
CacheComponent_dropped(s, name, component) == s

\* Variant: an instance already stored under name is kept.
CacheComponent_first_wins(s, name, component) ==
    IF Has(s.reg, name) THEN s ELSE [s EXCEPT !.reg = Put(@, name, component)]

\* _component_registry[name] = component
CacheComponent(s, name, component) ==
    [s EXCEPT !.reg = Put(@, name, component)]

\* The bare `raise` of both except blocks: the caught exception goes on to
\* the caller as it is.
Reraise(e, name) == e

\* Variant: the message leaves out the names that have only an instance.
Available_without_instances(s) == DOMAIN s.rf \cup DOMAIN s.fac

\* The names the KeyError message lists (the three key lists, concatenated).
Available(s) == DOMAIN s.rf \cup DOMAIN s.fac \cup DOMAIN s.reg

\* KeyError("Component '<name>' is not registered. Available components: ...")
NotRegistered(s, name) ==
    Exc(KeyErrorCls, "not_registered", name, Available(s))

\* RuntimeError("Factory registration function for '<name>' did not register
\* the factory")
DidNotRegister(name) ==
    Exc(RuntimeErrorCls, "did_not_register", name, {})

\* Variant: a failed creation is cached as an empty instance.
CreateFromFactory_caching_failure(s, name, fo, earlier) ==
    LET factory == s.fac[name]
        made == InvokeFactory(s, factory, fo)
        invoked == Append(earlier, Call("factory", name, factory))
    IN  IF made.res.ok
        THEN [s |-> [made.s EXCEPT !.reg = Put(@, name, made.res.val)],
              res |-> Returned(made.res.val),
              calls |-> invoked]
        ELSE [s |-> [made.s EXCEPT !.reg = Put(@, name, 0)],
              res |-> Raised(made.res.err),
              calls |-> invoked]

\* factory = _component_factories[name]; component = factory(); store; return
\* (the body of both try blocks from the factory lookup on).
CreateFromFactory(s, name, fo, earlier) ==
    LET factory == s.fac[name]
        made == InvokeFactory(s, factory, fo)
        invoked == Append(earlier, Call("factory", name, factory))
    IN  IF made.res.ok
        THEN [s |-> CacheComponent(made.s, name, made.res.val),
              res |-> Returned(made.res.val),
              calls |-> invoked]
        ELSE [s |-> made.s,
              res |-> Raised(Reraise(made.res.err, name)),
              calls |-> invoked]

\* Variant: the third tier returns the component without storing it.
CreateFromRegistrar_uncached(s, name, fo) ==
    LET registration_func == s.rf[name]
        done == InvokeRegistrar(s, registration_func)
        invoked == <<Call("registrar", name, registration_func)>>
    IN  IF ~done.res.ok
        THEN [s |-> done.s, res |-> Raised(done.res.err), calls |-> invoked]
        ELSE IF Has(done.s.fac, name)
        THEN LET made == InvokeFactory(done.s, done.s.fac[name], fo) IN
             [s |-> made.s, res |-> made.res,
              calls |-> Append(invoked, Call("factory", name, done.s.fac[name]))]
        ELSE [s |-> done.s, res |-> Raised(DidNotRegister(name)), calls |-> invoked]

\* Variant: a registrar that was called is removed from the registry.
CreateFromRegistrar_consuming(s, name, fo) ==
    LET registration_func == s.rf[name]
        done == InvokeRegistrar(s, registration_func)
        used == [done.s EXCEPT !.rf = Remove(@, name)]
        invoked == <<Call("registrar", name, registration_func)>>
    IN  IF ~done.res.ok
        THEN [s |-> used, res |-> Raised(done.res.err), calls |-> invoked]
        ELSE IF Has(used.fac, name)
        THEN CreateFromFactory(used, name, fo, invoked)
        ELSE [s |-> used, res |-> Raised(DidNotRegister(name)), calls |-> invoked]

\* The third tier: registration_func(), then the factory it registered.
CreateFromRegistrar(s, name, fo) ==
    LET registration_func == s.rf[name]
        done == InvokeRegistrar(s, registration_func)
        invoked == <<Call("registrar", name, registration_func)>>
    IN  IF ~done.res.ok
        THEN [s |-> done.s,
              res |-> Raised(Reraise(done.res.err, name)),
              calls |-> invoked]
        ELSE IF Has(done.s.fac, name)
        THEN CreateFromFactory(done.s, name, fo, invoked)
        ELSE [s |-> done.s,
              res |-> Raised(Reraise(DidNotRegister(name), name)),
              calls |-> invoked]

\* get_component(name); fo is what the factory does if it is called.
get_component(s, name, fo) ==
    IF Has(s.reg, name)
    THEN [s |-> s, res |-> Returned(s.reg[name]), calls |-> <<>>]
    ELSE IF Has(s.fac, name)
    THEN CreateFromFactory(s, name, fo, <<>>)
    ELSE IF Has(s.rf, name)
    THEN CreateFromRegistrar(s, name, fo)
    ELSE [s |-> s, res |-> Raised(NotRegistered(s, name)), calls |-> <<>>]

\* The factory get_component(name) would call in s, if it gets that far.
FactoryReached(s, name) ==
    IF Has(s.reg, name) THEN {}
    ELSE IF Has(s.fac, name) THEN {s.fac[name]}
    ELSE IF Has(s.rf, name)
    THEN LET done == InvokeRegistrar(s, s.rf[name]) IN
         IF done.res.ok /\ Has(done.s.fac, name) THEN {done.s.fac[name]} ELSE {}
    ELSE {}

\* The outcomes to enumerate for get_component(name) in s.
OutcomesFor(s, name) ==
    IF FactoryReached(s, name) = {} THEN {"ok"}
    ELSE UNION {FactoryOutcomes(f) : f \in FactoryReached(s, name)}

(* --------------- common/components.py: cleanup_all_components --------- *)

\* callback(): close_connection_pool closes the pool; any other callback
\* leaves the modelled state alone. A callback that raises has no effect.
InvokeCleanup(s, callback, raises) ==
    IF raises THEN s
    ELSE IF callback = CloseConnectionPool THEN close_connection_pool(s)
    ELSE s

\* The loop over _cleanup_callbacks.items(): todo are the names still to
\* visit, raising the names whose callback raises (caught and logged).
RECURSIVE CleanupLoop(_, _, _, _)
CleanupLoop(s, todo, raising, invoked) ==
    IF todo = {} THEN [s |-> s, res |-> Returned(0), calls |-> invoked]
    ELSE LET name == CHOOSE n \in todo : TRUE
             callback == s.cb[name]
         IN  CleanupLoop(InvokeCleanup(s, callback, name \in raising),
                         todo \ {name}, raising,
                         Append(invoked, Call("cleanup", name, callback)))

\* Variant: no try/except around callback(); the first callback that
\* raises ends the loop and the exception leaves cleanup_all_components.
cleanup_all_components_unguarded(s, raising) ==
    IF raising = {} THEN CleanupLoop(s, DOMAIN s.cb, raising, <<>>)
    ELSE [CleanupLoop(s, {CHOOSE n \in raising : TRUE}, raising, <<>>)
            EXCEPT !.res = Raised(RaisedByCallable(OtherErrorCls))]

\* cleanup_all_components()
cleanup_all_components(s, raising) ==
    CleanupLoop(s, DOMAIN s.cb, raising, <<>>)

(* ------ common/component_config.py: register_components_from_config -- *)

\* str.lower() on the strings of the model.
Lower(str) ==
    CASE str = "UP" -> "up"
      [] str = "DOWN" -> "down"
      [] str = "MySQL" -> "mysql"
      [] str = "Request-ID" -> "request-id"
      [] str = "X-Request-ID" -> "x-request-id"
      [] str = "Authorization" -> "authorization"
      [] str = "X-API-Key" -> "x-api-key"
      [] str = "Content-Type" -> "content-type"
      [] str = "Content-Length" -> "content-length"
      [] str = "Set-Cookie" -> "set-cookie"
      [] OTHER -> str

\* Variant: the pool is opened when the registrar is registered.
_register_mysql_factory_eager(s, metadata) ==
    LET s1 == register_factory_registration_function(s, "database",
                  Callable("register_mysql_factory", metadata.host))
    IN  init_connection_pool(s1, "ok").s

\* _register_mysql_factory(metadata): the registrar goes under "database".
_register_mysql_factory(s, metadata) ==
    register_factory_registration_function(s, "database",
        Callable("register_mysql_factory", metadata.host))

\* Variant: only the first entry's status decides.
RegisterOneFromConfig_first_entry_only(s, component_name, metadata_list) ==
    LET s1 == set_component_metadata(s, component_name, metadata_list)
        items == s.heap[metadata_list]
    IN  IF Lower(items[1].status) # "up" THEN s1
        ELSE IF Lower(component_name) \in {"mysql", "database", "db"}
        THEN _register_mysql_factory(s1, items[1])
        ELSE s1

\* Variant: the status is not looked at.
RegisterOneFromConfig_ignoring_status(s, component_name, metadata_list) ==
    LET s1 == set_component_metadata(s, component_name, metadata_list)
        items == s.heap[metadata_list]
    IN  IF Lower(component_name) \in {"mysql", "database", "db"}
        THEN _register_mysql_factory(s1, items[1])
        ELSE s1

\* One iteration of the loop of register_components_from_config;
\* metadata_list is a list object.
RegisterOneFromConfig(s, component_name, metadata_list) ==
    LET s1 == set_component_metadata(s, component_name, metadata_list)
        items == s.heap[metadata_list]
        has_up_status ==
            \E i \in DOMAIN items : Lower(items[i].status) = "up"
    IN  IF ~has_up_status THEN s1
        ELSE IF Lower(component_name) \in {"mysql", "database", "db"}
        THEN _register_mysql_factory(s1, items[1])
        ELSE s1

\* register_components_from_config(config): config is the sequence of the
\* dictionary's items, in its order.
RECURSIVE register_components_from_config(_, _)
register_components_from_config(s, config) ==
    IF config = <<>> THEN s
    ELSE register_components_from_config(
            RegisterOneFromConfig(s, Head(config).name, Head(config).list),
            Tail(config))

(* ---------------------- Python values on the wire --------------------- *)
(* Dicts and header lists, byte strings and text, and the JSON documents   *)
(* the middleware reads and writes.                                        *)

\* A dict, or the items of a headers object: <<key, value>> pairs in
\* order. A dict has each key once, at the place it was first set.
ItemKeys(items) == {items[i][1] : i \in DOMAIN items}

\* d.get(key, default)
DictGet(d, key, default) ==
    IF key \in ItemKeys(d)
    THEN d[CHOOSE i \in DOMAIN d : d[i][1] = key][2]
    ELSE default

\* d[key] = value
DictSet(d, key, value) ==
    IF key \in ItemKeys(d)
    THEN [i \in DOMAIN d |-> IF d[i][1] = key THEN <<key, value>> ELSE d[i]]
    ELSE Append(d, <<key, value>>)

\* dict(items), {k: v for k, v in items}: a key that comes again keeps its
\* place and takes the later value.
RECURSIVE DictUpdate(_, _)
DictUpdate(d, items) ==
    IF items = <<>> THEN d
    ELSE DictUpdate(DictSet(d, Head(items)[1], Head(items)[2]), Tail(items))

DictOf(items) == DictUpdate(<<>>, items)

\* d.pop(key, None)
DictPop(d, key) == SelectSeq(d, LAMBDA item : item[1] # key)

\* A Python value the middleware handles: None, a dict or a list read from
\* JSON, or a str. items are the dict's, text the str's.
Value(type, items, text) == [type |-> type, items |-> items, text |-> text]
NoneValue == Value("none", <<>>, <<>>)
DictValue(items) == Value("dict", items, <<>>)
ListValue == Value("list", <<>>, <<>>)
StrValue(text) == Value("str", <<>>, text)

\* Bytes and text are sequences of runs. Run(kind, n, doc) is n bytes or
\* characters of one kind: "char" a character that is the same in bytes and
\* text, "bad" a byte that is no UTF-8, "replaced" the replacement
\* character, "json" the text of the JSON document doc, which has doc.len
\* characters (the run is the whole document when n = doc.len).
Doc(value, len) == [value |-> value, len |-> len]
NoDoc == Doc(NoneValue, 0)
Run(kind, n, doc) == [kind |-> kind, n |-> n, doc |-> doc]
Chars(n) == <<Run("char", n, NoDoc)>>
BadBytes(n) == <<Run("bad", n, NoDoc)>>
JsonText(doc) == <<Run("json", doc.len, doc)>>

\* len(text)
RECURSIVE Length(_)
Length(text) == IF text = <<>> THEN 0 ELSE Head(text).n + Length(Tail(text))

\* text[:k]
RECURSIVE Slice(_, _)
Slice(text, k) ==
    IF text = <<>> \/ k <= 0 THEN <<>>
    ELSE IF Head(text).n <= k
    THEN <<Head(text)>> \o Slice(Tail(text), k - Head(text).n)
    ELSE <<[Head(text) EXCEPT !.n = k]>>

\* bytes.decode("utf-8") raises UnicodeDecodeError on a byte that is no
\* UTF-8; otherwise the text has the runs of the bytes.
CanDecode(bytes) == \A i \in DOMAIN bytes : bytes[i].kind # "bad"

\* bytes.decode("utf-8", errors="replace")
DecodeReplace(bytes) ==
    [i \in DOMAIN bytes |->
        IF bytes[i].kind = "bad" THEN [bytes[i] EXCEPT !.kind = "replaced"]
        ELSE bytes[i]]

\* json.loads(text) succeeds when the text is one whole JSON document.
IsJsonText(text) ==
    /\ Len(text) = 1
    /\ text[1].kind = "json"
    /\ text[1].n = text[1].doc.len

\* json.loads(text): an object becomes a dict, a key written twice taking
\* the later value; NaN is read as a float.
json_loads(text) ==
    LET value == text[1].doc.value
    IN  IF value.type = "dict" THEN DictValue(DictOf(value.items)) ELSE value

\* json.dumps(value, allow_nan=False) raises ValueError on a NaN.
CanRender(value) ==
    \A i \in DOMAIN value.items : value.items[i][2] # "NaN"

\* The characters json.dumps writes for a value: the brackets and, for each
\* item, its key, its value and the punctuation.
RenderedLength(value) == 2 + 12 * Len(value.items)

\* JSONResponse.render(content): json.dumps(content, ...).encode("utf-8")
JsonRender(value) == JsonText(Doc(value, RenderedLength(value)))

\* The parts of the strings of the model that the prefix and substring
\* tests of the code look at.
Parts(str) ==
    CASE str = "" -> <<>>
      [] str = "application/json; charset=utf-8" ->
            <<"application/json", "; charset=utf-8">>
      [] str = "multipart/related; type=application/json" ->
            <<"multipart/related; type=", "application/json">>
      [] OTHER -> <<str>>

\* str.startswith(prefix)
StartsWith(str, prefix) == Parts(str) # <<>> /\ Head(Parts(str)) = prefix

\* sub in str
Contains(str, sub) == \E i \in DOMAIN Parts(str) : Parts(str)[i] = sub

(* ------------------------ common/constants.py ------------------------- *)

REQUEST_ID_HEADER_VARIANTS ==
    <<"request-id", "Request-ID", "X-Request-ID", "x-request-id">>
REQUEST_ID_RESPONSE_HEADER == "X-Request-ID"
REQUEST_ID_RESPONSE_KEY == "request_id"
SENSITIVE_HEADERS == {"authorization", "cookie", "x-api-key", "api-key"}
CONTENT_LENGTH_HEADER == "content-length"
CONTENT_TYPE_HEADER == "content-type"
APPLICATION_JSON == "application/json"

\* The paths whose requests are not logged.
EXCLUDED_LOG_PATHS == {"/health"}

(* --------------------------- server/logger.py ------------------------- *)
(* request_id_var is a ContextVar: every task has its own binding, a task  *)
(* started by another begins with a copy of its parent's, and a binding    *)
(* made in a task is seen in that task only.                               *)

\* The task that handles request r at depth d of the middleware stack, and
\* the task that runs the lifespan, outside every request.
Task(r, d) == <<r, d>>
MainTask == Task(0, 0)

\* get_request_id(): request_id_var.get('')
get_request_id(ctx, task) == ctx[task]

\* Variant: the request ID is a module global.
set_request_id_global(ctx, task, id) == [t \in DOMAIN ctx |-> id]

\* set_request_id(id): request_id_var.set(id)
set_request_id(ctx, task, id) == [ctx EXCEPT ![task] = id]

\* Variant: a task starts with an empty context.
copy_context_fresh(ctx, parent, child) == [ctx EXCEPT ![child] = ""]

\* A task is started from task parent: it runs in a copy of its context.
copy_context(ctx, parent, child) == [ctx EXCEPT ![child] = ctx[parent]]

(* ---------------------------- common/env.py --------------------------- *)

\* Env.__init__: the attributes of the configuration and their defaults.
DefaultEnv ==
    <<<<"SERVER_HOST", "0.0.0.0">>, <<"SERVER_PORT", "8080">>,
      <<"APP_NAME", "app">>, <<"ENV", "dev1">>, <<"DB_HOST", "localhost">>,
      <<"DB_PORT", "3306">>, <<"DB_USER", "root">>, <<"DB_PASSWORD", "">>,
      <<"DB_NAME", "testdb">>>>

\* str.upper() on the keys of the model.
Upper(str) ==
    CASE str = "server_port" -> "SERVER_PORT"
      [] str = "db_host" -> "DB_HOST"
      [] str = "Db_Name" -> "DB_NAME"
      [] str = "unknown" -> "UNKNOWN"
      [] OTHER -> str

\* Env.update_from_dict(data): an item whose upper-cased key is an attribute
\* sets it, any other item is skipped.
RECURSIVE update_from_dict(_, _)
update_from_dict(env, data) ==
    IF data = <<>> THEN env
    ELSE LET attr_name == Upper(data[1][1]) IN
         update_from_dict(IF attr_name \in ItemKeys(env)
                          THEN DictSet(env, attr_name, data[1][2])
                          ELSE env,
                          Tail(data))

\* A path of the file system: no file, a file that cannot be opened, a file
\* that is not JSON, or a file holding a JSON document.
MissingFile == [state |-> "missing", data |-> NoneValue]
UnreadableFile == [state |-> "unreadable", data |-> NoneValue]
MalformedFile == [state |-> "malformed", data |-> NoneValue]
JsonFile(data) == [state |-> "json", data |-> data]

\* Path.cwd() of the server process.
Cwd == "/app/"

\* The path _try_read opens: file_path itself when it starts with "/",
\* Path.cwd() / file_path otherwise.
ResolvedPath(file_path) ==
    IF file_path = "/etc/config.json" THEN file_path
    ELSE IF file_path = "config.json" THEN "/app/config.json"
    ELSE file_path

\* _try_read(file_path) on file system fs: None for a path that does not
\* exist, what json.load gives for a file that parses, and the exception of
\* open or json.load otherwise, raised again.
_try_read(fs, file_path) ==
    LET file == fs[ResolvedPath(file_path)] IN
    CASE file.state = "missing" -> [raises |-> NoException, data |-> NoneValue]
      [] file.state = "unreadable" ->
            [raises |-> "PermissionError", data |-> NoneValue]
      [] file.state = "malformed" ->
            [raises |-> "JSONDecodeError", data |-> NoneValue]
      [] OTHER -> [raises |-> NoException, data |-> file.data]

\* config_files of InitializeConfig
config_files == <<"/etc/config.json", "config.json">>

\* A line InitializeConfig writes to the log.
ConfigLog(level, msg, file) == [level |-> level, msg |-> msg, file |-> file]

\* The loop of InitializeConfig from candidate i on; load is Env and the
\* log so far. A candidate whose data is not None is put into Env and ends
\* the call; data that has no items() raises AttributeError there. An
\* Exception of the candidate is logged and the loop goes on.
RECURSIVE InitializeConfigFrom(_, _, _)
InitializeConfigFrom(fs, i, load) ==
    IF i > Len(config_files)
    THEN [load EXCEPT !.log = Append(@, ConfigLog("error",
                                "Config file having issue", "")),
                      !.returned = "after_loop"]
    ELSE LET file_path == config_files[i]
             read == _try_read(fs, file_path)
             raised == IF read.raises # NoException THEN read.raises
                       ELSE IF read.data.type \notin {"none", "dict"}
                       THEN "AttributeError"
                       ELSE NoException
         IN  IF raised # NoException
             THEN IF IsException(raised)
                  THEN InitializeConfigFrom(fs, i + 1,
                           [load EXCEPT !.log = Append(@,
                               ConfigLog("error", "Error reading config file",
                                         file_path))])
                  ELSE [load EXCEPT !.raises = raised]
             ELSE IF read.data # NoneValue
             THEN [load EXCEPT
                     !.Env = update_from_dict(@, read.data.items),
                     !.log = Append(@, ConfigLog("info", "Read configs from",
                                                 file_path)),
                     !.returned = file_path]
             ELSE InitializeConfigFrom(fs, i + 1, load)

\* A process in which InitializeConfig has not run.
NotLoaded == [Env |-> DefaultEnv, log |-> <<>>, raises |-> NoException,
              returned |-> ""]

\* InitializeConfig(logger_instance)
InitializeConfig(fs) == InitializeConfigFrom(fs, 1, NotLoaded)

(* -------------------- server/middleware/bodylogger.py ----------------- *)

\* The [:500] of parse_request_body and parse_response_body.
LOGGED_BODY_CHARS == 500

\* Variant: the name is compared as it is written.
filter_sensitive_headers_case_sensitive(headers) ==
    [i \in DOMAIN headers |->
        <<headers[i][1],
          IF headers[i][1] \notin SENSITIVE_HEADERS THEN headers[i][2] ELSE "***">>]

\* filter_sensitive_headers(headers)
filter_sensitive_headers(headers) ==
    [i \in DOMAIN headers |->
        <<headers[i][1],
          IF Lower(headers[i][1]) \notin SENSITIVE_HEADERS THEN headers[i][2]
          ELSE "***">>]

\* The record logger.Infow("Incoming request", ...) writes.
LogRecord(method, path, client_ip, headers, query_params, body) ==
    [method |-> method, path |-> path, client_ip |-> client_ip,
     headers |-> headers, query_params |-> query_params, body |-> body]

NoLogRecord == LogRecord("", "", "", <<>>, <<>>, NoneValue)

\* log_incoming_request(method, path, client_ip, headers, query_params, body)
log_incoming_request(method, path, client_ip, headers, query_params, body) ==
    LogRecord(method, path, client_ip, filter_sensitive_headers(headers),
              query_params, body)

\* Variant: a JSON body that cannot be read is logged whole.
parse_request_body_untruncated(body_bytes, content_type) ==
    IF body_bytes = <<>> THEN NoneValue
    ELSE IF Contains(content_type, APPLICATION_JSON)
    THEN IF CanDecode(body_bytes) /\ IsJsonText(body_bytes)
         THEN json_loads(body_bytes)
         ELSE StrValue(DecodeReplace(body_bytes))
    ELSE StrValue(Slice(DecodeReplace(body_bytes), LOGGED_BODY_CHARS))

\* parse_request_body(body_bytes, content_type)
parse_request_body(body_bytes, content_type) ==
    IF body_bytes = <<>> THEN NoneValue
    ELSE IF Contains(content_type, APPLICATION_JSON)
    THEN IF CanDecode(body_bytes) /\ IsJsonText(body_bytes)
         THEN json_loads(body_bytes)
         ELSE StrValue(Slice(DecodeReplace(body_bytes), LOGGED_BODY_CHARS))
    ELSE StrValue(Slice(DecodeReplace(body_bytes), LOGGED_BODY_CHARS))

\* parse_response_body(body_bytes, content_type)
parse_response_body(body_bytes, content_type) ==
    IF body_bytes = <<>> THEN NoneValue
    ELSE IF Contains(content_type, APPLICATION_JSON)
    THEN IF CanDecode(body_bytes) /\ IsJsonText(body_bytes)
         THEN json_loads(body_bytes)
         ELSE StrValue(Slice(DecodeReplace(body_bytes), LOGGED_BODY_CHARS))
    ELSE StrValue(Slice(DecodeReplace(body_bytes), LOGGED_BODY_CHARS))

(* -------------------- server/middleware/middleware.py ----------------- *)

\* Python's None among the strings of the model.
None == "<None>"

\* if value: ...
Truthy(value) == value \notin {None, ""}

\* request.headers.get(key): headers are the (name, value) pairs of the
\* request in the order sent; names are compared in lower case and the
\* first pair of that name gives the value.
HeadersGet(headers, key) ==
    LET found == {i \in DOMAIN headers : Lower(headers[i][1]) = Lower(key)}
    IN  IF found = {} THEN None
        ELSE headers[CHOOSE i \in found : \A j \in found : i <= j][2]

\* request.headers.get(key, default)
HeadersGetOr(headers, key, default) ==
    IF HeadersGet(headers, key) = None THEN default ELSE HeadersGet(headers, key)

\* Variant: no break, the loop goes through every variant and the last
\* one that has a value wins.
RECURSIVE ScanHeaderVariants_last_wins(_, _, _)
ScanHeaderVariants_last_wins(headers, variants, request_id) ==
    IF variants = <<>> THEN request_id
    ELSE LET got == HeadersGet(headers, Head(variants)) IN
         ScanHeaderVariants_last_wins(headers, Tail(variants),
             IF Truthy(got) THEN got ELSE request_id)

\* The for loop of _get_or_generate_request_id over the variants still to
\* try; request_id is the value the loop variable holds.
RECURSIVE ScanHeaderVariants(_, _, _)
ScanHeaderVariants(headers, variants, request_id) ==
    IF variants = <<>> THEN request_id
    ELSE LET got == HeadersGet(headers, Head(variants)) IN
         IF Truthy(got) THEN got
         ELSE ScanHeaderVariants(headers, Tail(variants), got)

\* _get_or_generate_request_id(request); fresh is what str(uuid.uuid4())
\* gives if it is called.
_get_or_generate_request_id(headers, fresh) ==
    LET request_id == ScanHeaderVariants(headers, REQUEST_ID_HEADER_VARIANTS, None)
    IN  IF ~Truthy(request_id) THEN fresh ELSE request_id

\* app.middleware("http")(f): the stage added last is the outermost.
AddMiddleware(stack, f) == <<f>> \o stack

_add_request_logging_middleware(stack) == AddMiddleware(stack, "log_request")
_add_request_id_middleware(stack) == AddMiddleware(stack, "add_request_id")

\* Variant: the ID stage is registered first.
apply_middleware_id_first(stack) ==
    _add_request_logging_middleware(_add_request_id_middleware(stack))

\* apply_middleware(app)
apply_middleware(stack) ==
    _add_request_id_middleware(_add_request_logging_middleware(stack))

\* The middleware stack of the application main() builds, outermost first.
Stack == apply_middleware(<<>>)

\* Optional[bytes]: None, or bytes.
Some(bytes) == [some |-> TRUE, bytes |-> bytes]
NoBytes == [some |-> FALSE, bytes |-> <<>>]

\* A response: its status, its headers (the list of <<name, value>> pairs
\* the framework keeps, names in lower case), its body and whether its
\* body_iterator was read to the end.
Response(status_code, headers, body) ==
    [status_code |-> status_code, headers |-> headers, body |-> body,
     drained |-> FALSE]

NoResponse == Response(0, <<>>, <<>>)

\* The bytes a response yields when its body is read or sent: a
\* body_iterator that was read to the end yields nothing more.
BodySent(response) == IF response.drained THEN <<>> ELSE response.body

\* async for chunk in response.body_iterator: body += chunk
Drain(response) == [response EXCEPT !.drained = TRUE]

\* What call_next returns: a streaming response with the status, the
\* headers and the body the inner stage sends.
StreamingResponse(inner) ==
    Response(inner.status_code, inner.headers, BodySent(inner))

\* response.headers[key] = value: the first header of that name takes the
\* value and the others of that name are removed; without one, the header
\* is added at the end.
SetHeader(response, key, value) ==
    LET h == response.headers
        at == {i \in DOMAIN h : h[i][1] = Lower(key)}
        first == CHOOSE i \in at : \A j \in at : i <= j
    IN  [response EXCEPT !.headers =
            IF at = {} THEN Append(h, <<Lower(key), value>>)
            ELSE SubSeq(h, 1, first - 1) \o << <<Lower(key), value>> >> \o
                 SelectSeq(SubSeq(h, first + 1, Len(h)),
                           LAMBDA item : item[1] # Lower(key))]

\* response.headers.get(key, ""): the first header of that name.
GetHeader(response, key) ==
    LET h == response.headers
        at == {i \in DOMAIN h : h[i][1] = Lower(key)}
    IN  IF at = {} THEN ""
        ELSE h[CHOOSE i \in at : \A j \in at : i <= j][2]

\* _normalize_headers(headers); headers are the items of a dict or of a
\* headers object.
_normalize_headers(headers) ==
    DictPop(DictOf([i \in DOMAIN headers |->
                       <<Lower(headers[i][1]), headers[i][2]>>]),
            CONTENT_LENGTH_HEADER)

\* Response(content=body, status_code=..., headers=..., media_type=...) and
\* JSONResponse(...): the names are put in lower case, and the framework
\* adds the content-length of the body and the content-type of the media
\* type where the headers have none.
NewResponse(status_code, headers, media_type, body) ==
    LET raw == [i \in DOMAIN headers |-> <<Lower(headers[i][1]), headers[i][2]>>]
        with_length ==
            IF CONTENT_LENGTH_HEADER \in ItemKeys(raw) THEN raw
            ELSE Append(raw, <<CONTENT_LENGTH_HEADER, ToString(Length(body))>>)
    IN  Response(status_code,
                 IF CONTENT_TYPE_HEADER \in ItemKeys(raw) \/ media_type = None
                 THEN with_length
                 ELSE Append(with_length, <<CONTENT_TYPE_HEADER, media_type>>),
                 body)

\* content_type.startswith(const.APPLICATION_JSON)
StartsWithJson(content_type) == StartsWith(content_type, APPLICATION_JSON)

\* How add_request_id ends: with the response it returns, or with an
\* exception; read tells whether it read the body_iterator of the response
\* it was given.
Handed(response, read) == [response |-> response, raised |-> FALSE, read |-> read]
Thrown == [response |-> NoResponse, raised |-> TRUE, read |-> TRUE]

\* Variant: the response is stamped only when it is a JSON mapping; when
\* the body cannot be read as JSON the response goes on as it is, its
\* stream read.
StampRequestId_without_fallback(response, request_id) ==
    LET stamped == SetHeader(response, REQUEST_ID_RESPONSE_HEADER, request_id)
        content_type == GetHeader(stamped, CONTENT_TYPE_HEADER)
        body == BodySent(stamped)
    IN  IF ~StartsWithJson(content_type) THEN Handed(stamped, FALSE)
        ELSE IF body = <<>> THEN Handed(Drain(stamped), TRUE)
        ELSE IF ~(CanDecode(body) /\ IsJsonText(body)) THEN Handed(Drain(stamped), TRUE)
        ELSE LET response_data == json_loads(body) IN
             IF response_data.type # "dict" THEN Handed(Drain(stamped), TRUE)
             ELSE LET content == DictValue(DictSet(response_data.items,
                                     REQUEST_ID_RESPONSE_KEY, request_id))
                  IN  IF ~CanRender(content) THEN Thrown
                      ELSE Handed(NewResponse(stamped.status_code,
                                      _normalize_headers(stamped.headers),
                                      APPLICATION_JSON, JsonRender(content)),
                                 TRUE)

\* Variant: every response is read, whatever its content type.
StampRequestId_reading_all(response, request_id) ==
    LET stamped == SetHeader(response, REQUEST_ID_RESPONSE_HEADER, request_id)
        content_type == GetHeader(stamped, CONTENT_TYPE_HEADER)
        body == BodySent(stamped)
    IN  IF body = <<>> THEN Handed(Drain(stamped), TRUE)
        ELSE IF ~(CanDecode(body) /\ IsJsonText(body))
        THEN Handed(NewResponse(stamped.status_code,
                        _normalize_headers(stamped.headers), content_type, body),
                    TRUE)
        ELSE LET response_data == json_loads(body) IN
             IF response_data.type # "dict" THEN Handed(Drain(stamped), TRUE)
             ELSE LET content == DictValue(DictSet(response_data.items,
                                     REQUEST_ID_RESPONSE_KEY, request_id))
                  IN  IF ~CanRender(content) THEN Thrown
                      ELSE Handed(NewResponse(stamped.status_code,
                                      _normalize_headers(stamped.headers),
                                      APPLICATION_JSON, JsonRender(content)),
                                 TRUE)

\* add_request_id after call_next returned response. The header is set; a
\* response declared as JSON is read to the end and, when its body is a
\* JSON mapping, built anew with the request ID in it; when the body cannot
\* be read as JSON, built anew from the bytes; else it is returned as it is.
\* The ValueError of JSONResponse is not among the exceptions caught.
StampRequestId(response, request_id) ==
    LET stamped == SetHeader(response, REQUEST_ID_RESPONSE_HEADER, request_id)
        content_type == GetHeader(stamped, CONTENT_TYPE_HEADER)
        body == BodySent(stamped)
    IN  IF ~StartsWithJson(content_type) THEN Handed(stamped, FALSE)
        ELSE IF body = <<>> THEN Handed(Drain(stamped), TRUE)
        ELSE IF ~(CanDecode(body) /\ IsJsonText(body))
        THEN Handed(NewResponse(stamped.status_code,
                        _normalize_headers(stamped.headers), content_type, body),
                    TRUE)
        ELSE LET response_data == json_loads(body) IN
             IF response_data.type # "dict" THEN Handed(Drain(stamped), TRUE)
             ELSE LET content == DictValue(DictSet(response_data.items,
                                     REQUEST_ID_RESPONSE_KEY, request_id))
                  IN  IF ~CanRender(content) THEN Thrown
                      ELSE Handed(NewResponse(stamped.status_code,
                                      _normalize_headers(stamped.headers),
                                      APPLICATION_JSON, JsonRender(content)),
                                 TRUE)

\* read_and_parse_response_body(response): the body is read to the end;
\* body_bytes is None when it is empty.
read_and_parse_response_body(response) ==
    LET body == BodySent(response)
        content_type == GetHeader(response, CONTENT_TYPE_HEADER)
    IN  [response_body |-> IF body = <<>> THEN NoneValue
                           ELSE parse_response_body(body, content_type),
         body_bytes |-> IF body = <<>> THEN NoBytes ELSE Some(body),
         response |-> Drain(response)]

\* log_request after call_next returned response: the body is read and,
\* unless it is empty, the response is built anew from the bytes.
RebuildResponse(response) ==
    LET read == read_and_parse_response_body(response)
    IN  IF read.body_bytes.some
        THEN NewResponse(read.response.status_code,
                         _normalize_headers(read.response.headers),
                         GetHeader(read.response, CONTENT_TYPE_HEADER),
                         read.body_bytes.bytes)
        ELSE read.response

\* response.set_cookie(...), response.headers.append(key, value)
AppendHeader(response, key, value) ==
    [response EXCEPT !.headers = Append(@, <<Lower(key), value>>)]

\* Variant: no path is logged.
ShouldLog_never(path) == FALSE

\* should_log = path not in const.EXCLUDED_LOG_PATHS
ShouldLog(path) == path \notin EXCLUDED_LOG_PATHS

\* Variant: the handler is handed the request as it came.
DownstreamReceive_connection(body_bytes) == "connection"

\* The request log_request hands to call_next: when body_bytes is not None
\* a new request whose receive() gives body_bytes, else the request as it
\* came, which reads from the connection.
DownstreamReceive(body_bytes) ==
    IF body_bytes.some THEN "replay" ELSE "connection"

\* What a read of the body gives the handler: the bytes kept by
\* log_request on every read, or nothing from a connection whose stream
\* was read before.
Receive(record) ==
    IF record.receive = "replay" THEN record.body_bytes ELSE NoBytes

\* What the framework sends when an exception leaves the middleware stack.
ServerErrorResponse ==
    NewResponse(500, <<>>, "text/plain; charset=utf-8", Chars(21))

\* Variant: the body is taken as read even when reading it failed.
read_and_parse_request_body_unguarded(headers, body, readable) ==
    [request_body |-> IF body = <<>> THEN NoneValue
                      ELSE parse_request_body(body,
                               HeadersGetOr(headers, CONTENT_TYPE_HEADER, "")),
     body_bytes |-> Some(body)]

\* read_and_parse_request_body(request): request.body() gives the bytes of
\* the body, or raises, and then both results are None.
read_and_parse_request_body(headers, body, readable) ==
    IF ~readable THEN [request_body |-> NoneValue, body_bytes |-> NoBytes]
    ELSE [request_body |-> IF body = <<>> THEN NoneValue
                           ELSE parse_request_body(body,
                                    HeadersGetOr(headers, CONTENT_TYPE_HEADER, "")),
          body_bytes |-> Some(body)]

\* An attribute that is not set, and a value that is callable (the method
\* body of the request class, or a function put in its place).
Absent == Value("absent", <<>>, <<>>)
Method == Value("callable", <<>>, <<>>)

\* getattr(request.state, 'body', None) / request.__dict__.get('body', None)
AttrOrNone(attr) == IF attr = Absent THEN NoneValue ELSE attr

\* get_request_body(request), given the body attribute of request.state.
get_request_body(state_body) == AttrOrNone(state_body)

\* Variant: request.state is looked at first.
get_body_state_first(direct_body, state_body) ==
    IF AttrOrNone(state_body) # NoneValue THEN state_body
    ELSE AttrOrNone(direct_body)

\* Variant: only the attribute stored on the request is looked at.
get_body_without_fallback(direct_body, state_body) ==
    LET body == AttrOrNone(direct_body) IN
    IF body.type # "callable" THEN body ELSE NoneValue

\* get_body(request), given the body entry of request.__dict__ and the
\* body attribute of request.state.
get_body(direct_body, state_body) ==
    LET body == AttrOrNone(direct_body) IN
    IF body # NoneValue /\ body.type # "callable" THEN body
    ELSE AttrOrNone(state_body)

(* ---------------- services/users: the users table, create_user ------- *)

\* The users table: its committed rows and the next AUTO_INCREMENT id.
\* email carries a unique index (Field(unique=True)).
EmptyTable == [rows |-> {}, next_id |-> 1]

\* A row of the table, as far as create_user is concerned.
User(id, email) == [id |-> id, email |-> email]

\* select(User).where(User.email == email), .first(): the committed rows of
\* that email; a row another session has not committed yet is not seen.
select_by_email(table, email) == {row \in table.rows : row.email = email}

\* session.add(user); session.flush(); session.refresh(user): the INSERT is
\* sent. The unique index on email refuses it when a committed row has the
\* email; otherwise the row gets the next id.
flush(table, email) ==
    IF select_by_email(table, email) # {}
    THEN [table |-> table, user_id |-> 0, raises |-> "IntegrityError"]
    ELSE [table |-> [table EXCEPT !.next_id = @ + 1],
          user_id |-> table.next_id, raises |-> NoException]

\* What a create_user call ends with: the status code and the detail of the
\* HTTPException it raised, or 200 and the user_id of the mapping returned.
Reply(status_code, detail, user_id) ==
    [status_code |-> status_code, detail |-> detail, user_id |-> user_id]
NoReply == Reply(0, "", 0)

\* not body
Empty(body) ==
    \/ body.type = "none"
    \/ body.type \in {"dict", "list"} /\ body.items = <<>>
    \/ body.type = "str" /\ body.text = <<>>

\* create_user up to the with statement: the reply it ends with there, or
\* NoReply when it goes on. body.get on a body that is no mapping raises
\* AttributeError inside the try.
create_user_fields(body) ==
    IF Empty(body) THEN Reply(400, "Request body is required", 0)
    ELSE IF body.type # "dict"
    THEN Reply(500, "Failed to create user: AttributeError", 0)
    ELSE IF \/ ~Truthy(DictGet(body.items, "name", None))
            \/ ~Truthy(DictGet(body.items, "email", None))
            \/ ~Truthy(DictGet(body.items, "password", None))
    THEN Reply(400, "name, email, and password are required", 0)
    ELSE NoReply

\* create_user from the end of its with block on: block is what the block
\* raised. get_db_session commits or rolls back and closes; an HTTPException
\* is raised again as it is, any other Exception becomes a 500.
create_user_after_block(block, user_id) ==
    LET raised == get_db_session(block, NoException, NoException).raises IN
    IF raised = NoException
    THEN Reply(200, "User created successfully", user_id)
    ELSE IF raised = "HTTPException"
    THEN Reply(400, "User with this email already exists", 0)
    ELSE IF raised = "IntegrityError"
    THEN Reply(500, "Failed to create user: IntegrityError", 0)
    ELSE Reply(500, "Failed to create user: RuntimeError", 0)

\* A caller that has not called create_user.
NoCreator == [pc |-> "idle", body |-> NoneValue, email |-> "", user_id |-> 0,
              reply |-> NoReply]

(* ----------------------- the requests of the run ------------------- *)

Requests == 1..NumRequests

\* The requests of the run, and the tasks that have a context.
Tasks ==
    {MainTask} \cup {Task(r, d) : r \in Requests, d \in 1..(Len(Stack) + 1)}

\* str(uuid.uuid4()) called for request r: no two calls give the same value.
uuid4(r) == <<"uuid-1", "uuid-2", "uuid-3", "uuid-4">>[r]

\* A request as it arrives: its path, its headers, the bytes of its body
\* and whether request.body() can read them (it raises when the client has
\* gone away).
Request(path, headers, body, readable) ==
    [path |-> path, headers |-> headers, body |-> body, readable |-> readable]

\* The headers of the requests of the run.
RequestHeaderInputs == {<<>>, << <<"X-Request-ID", "abc">> >>}

PathInputs == {"/", "/health"}

\* The requests of SpecPipe: without a body, to a path that is logged with
\* and without a request ID of the client, or to one that is not logged.
RequestInputs ==
    {Request("/", headers, <<>>, TRUE) : headers \in RequestHeaderInputs}
        \cup {Request(path, <<>>, <<>>, TRUE) : path \in PathInputs}

\* What the route handler does: it returns a JSON mapping, a text body or an
\* empty body, it raises HTTPException (which the framework turns into an
\* error response inside the middleware stack), or it raises another
\* exception.
HandlerOutcomes ==
    {"json_mapping", "text", "empty", "error_response", "raised"}

\* The dicts the handlers return.
HelloWorld == DictValue(<< <<"message", "Hello World">> >>)
NotFound == DictValue(<< <<"detail", "Not Found">> >>)

HandlerResponse(outcome) ==
    CASE outcome = "json_mapping" ->
            NewResponse(200, <<>>, APPLICATION_JSON, JsonRender(HelloWorld))
      [] outcome = "text" ->
            NewResponse(200, <<>>, "text/plain; charset=utf-8", Chars(5))
      [] outcome = "empty" ->
            NewResponse(204, <<>>, "text/plain; charset=utf-8", <<>>)
      [] outcome = "error_response" ->
            NewResponse(404, <<>>, APPLICATION_JSON, JsonRender(NotFound))
      [] outcome = "text_with_id" ->
            AppendHeader(
                NewResponse(200, << <<"X-Request-ID", "theirs">> >>,
                            "text/plain; charset=utf-8", Chars(5)),
                "x-request-id", "again")
      [] outcome = "json_with_request_id" ->
            NewResponse(200, <<>>, APPLICATION_JSON,
                JsonRender(DictValue(<< <<"request_id", "mine">>,
                                        <<"message", "Hello World">> >>)))
      [] outcome = "json_nan" ->
            NewResponse(200, <<>>, APPLICATION_JSON,
                JsonText(Doc(DictValue(<< <<"value", "NaN">> >>), 14)))
      [] outcome = "json_key_twice" ->
            NewResponse(200, <<>>, APPLICATION_JSON,
                JsonText(Doc(DictValue(<< <<"message", "1">>, <<"message", "2">> >>),
                             30)))
      [] outcome = "json_list" ->
            NewResponse(200, <<>>, APPLICATION_JSON, JsonText(Doc(ListValue, 2)))
      [] outcome = "json_malformed" ->
            NewResponse(200, <<>>, APPLICATION_JSON, Chars(9))
      [] outcome = "json_bad_utf8" ->
            NewResponse(200, <<>>, APPLICATION_JSON,
                JsonRender(HelloWorld) \o BadBytes(1))
      [] outcome = "json_empty" ->
            NewResponse(200, <<>>, APPLICATION_JSON, <<>>)
      [] outcome = "json_charset" ->
            NewResponse(201, << <<"Content-Type", "application/json; charset=utf-8">> >>,
                APPLICATION_JSON, JsonRender(HelloWorld))
      [] outcome = "json_capitals" ->
            NewResponse(200, << <<"content-type", "Application/JSON">> >>,
                APPLICATION_JSON, JsonRender(HelloWorld))
      [] outcome = "text_json_body" ->
            NewResponse(200, <<>>, "text/plain; charset=utf-8", JsonRender(HelloWorld))
      [] outcome = "no_content_type" ->
            NewResponse(200, <<>>, None, Chars(5))
      [] outcome = "text_cookies" ->
            AppendHeader(AppendHeader(
                NewResponse(200, <<>>, "text/plain; charset=utf-8", Chars(5)),
                "set-cookie", "a=1"), "set-cookie", "b=2")
      [] outcome = "json_cookies" ->
            AppendHeader(AppendHeader(
                NewResponse(200, << <<"X-Request-ID", "theirs">> >>,
                            APPLICATION_JSON, JsonRender(HelloWorld)),
                "set-cookie", "a=1"), "set-cookie", "b=2")
      [] OTHER -> NoResponse

\* A request nobody has sent yet. request is what arrived; request_id,
\* should_log, request_body, body_bytes and response are the locals of the
\* stages; downstream is the response add_request_id got from call_next
\* and read_by_id_stage whether it read its body_iterator; receive tells
\* what the request handed to the handler reads its body from,
\* stream_reads how often the body stream of the connection was read and
\* read_back what the handler's reads gave; state_body is
\* request.state.body, direct_body the body attribute log_request stores
\* on its request, logged_body the body of the incoming-request record,
\* handler_body and handler_state_body what get_body and get_request_body
\* gave the handler.
NoRequest ==
    [pc |-> "idle", depth |-> 0, request |-> Request("", <<>>, <<>>, TRUE),
     request_id |-> "", should_log |-> FALSE,
     request_body |-> NoneValue, body_bytes |-> NoBytes,
     receive |-> "connection", stream_reads |-> 0, read_back |-> <<>>,
     outcome |-> "", response |-> NoResponse, raised |-> FALSE,
     downstream |-> NoResponse, read_by_id_stage |-> FALSE,
     state_body |-> Absent, direct_body |-> Absent, logged_body |-> Absent,
     handler_body |-> Absent, handler_state_body |-> Absent]

\* One thing that happened while a request was handled, and the request ID
\* the code doing it had (the one bound, or the one get_request_id() gave).
Event(ev, rid) == [ev |-> ev, rid |-> rid]

(* ------------------------------- inputs ------------------------------- *)

FactoryInputs ==
    {Callable("create_mysql", "h1:3306"), Callable("make_component", "")}

RegistrarInputs ==
    {Callable("register_mysql_factory", "h1:3306"),
     Callable("noop_registrar", ""),
     Callable("raising_registrar", "")}

CleanupInputs == {NoCallback, CloseConnectionPool, Callable("release", "")}

\* The cleanup callbacks a caller passes along with a factory: the pool's
\* close function belongs to the factory that opens the pool.
CleanupInputsFor(factory) ==
    IF factory.fn = "create_mysql"
    THEN CleanupInputs \ {Callable("release", "")}
    ELSE CleanupInputs \ {CloseConnectionPool}

MetadataInputs == {<<Entry("h1:3306", "down")>>}

Item(name, list) == [name |-> name, list |-> list]

ConfigInputs ==
    {<<Item("database", <<Entry("h2:3306", "down"), Entry("h1:3306", "UP")>>)>>,
     <<Item("svc", <<Entry("h1:9092", "up")>>),
       Item("mysql", <<Entry("h1:3306", "down")>>)>>,
     <<Item("database", <<Entry("h2:3306", "down")>>),
       Item("mysql", <<Entry("h1:3306", "up")>>)>>}

\* The caller builds the lists of a configuration: each is a new object.
RECURSIVE Build(_, _)
Build(s, config) ==
    IF config = <<>> THEN [s |-> s, config |-> <<>>]
    ELSE LET list == NewRef(s.heap)
             rest == Build([s EXCEPT !.heap = Put(@, list, Head(config).list)],
                           Tail(config))
         IN  [s |-> rest.s,
              config |-> <<Item(Head(config).name, list)>> \o rest.config]

Threads == 1..NumThreads

\* The locals of a thread that is not inside get_component.
NoLocal == [factory |-> NoCallback, component |-> 0, made |-> FALSE,
            res |-> Returned(0)]

(* ------------------------------- Spec --------------------------------- *)

\* The arguments of an operation besides the name.
Args(fn, cleanup) == [fn |-> fn, cleanup |-> cleanup, config |-> <<>>]
NoArgs == Args(NoCallback, NoCallback)
ArgsOfConfig(config) == [NoArgs EXCEPT !.config = config]

\* How far a get_component went: the kind of the last callable it invoked.
Tier(invoked) ==
    IF invoked = <<>> THEN "none" ELSE invoked[Len(invoked)].kind

\* Where a get_component started: the kind of the first callable it invoked.
Via(invoked) ==
    IF invoked = <<>> THEN "none" ELSE invoked[1].kind

\* No dict was handed to the caller yet.
NoDict == [held |-> FALSE, dict |-> EmptyDict]

NoBefore == [ok |-> FALSE, via |-> "", tier |-> "", kind |-> "", val |-> 0]

Init ==
    /\ component_registry = EmptyDict
    /\ component_factories = EmptyDict
    /\ factory_registration_functions = EmptyDict
    /\ cleanup_callbacks = EmptyDict
    /\ component_metadata = EmptyDict
    /\ heap = EmptyDict
    /\ returned = NoDict
    /\ engine = NoEngine
    /\ disposed = {}
    /\ nextObj = 1
    /\ ops = 0
    /\ last = [op |-> "init", name |-> "", args |-> NoArgs, res |-> Returned(0)]
    /\ calls = <<>>
    /\ first_resolved = EmptyDict
    /\ reregistered = {}
    /\ before = NoBefore
    /\ pc = [t \in Threads |-> "idle"]
    /\ local = [t \in Threads |-> NoLocal]
    /\ stopped = FALSE
    /\ request_id_var = [t \in Tasks |-> ""]
    /\ rq = [r \in Requests |-> NoRequest]
    /\ events = [r \in Requests |-> <<>>]
    /\ sent = [r \in Requests |-> NoResponse]
    /\ outside = {}
    /\ given = [applied |-> FALSE, headers |-> <<>>, fresh |-> ""]
    /\ chosen = ""
    /\ logged = [applied |-> FALSE, headers |-> <<>>, record |-> NoLogRecord]
    /\ parsed = [applied |-> FALSE, body_bytes |-> <<>>, content_type |-> "",
                 request |-> NoneValue, response |-> NoneValue]
    /\ sess = [c \in Callers |-> NoSession]
    /\ body_got = [applied |-> FALSE, direct_body |-> Absent,
                   state_body |-> Absent, body |-> NoneValue]
    /\ env_load = [applied |-> FALSE, load |-> NotLoaded,
                   fs |-> [path \in {ResolvedPath(config_files[i]) :
                                        i \in DOMAIN config_files}
                               |-> MissingFile]]
    /\ users_table = EmptyTable
    /\ creators = [c \in Callers |-> NoCreator]

\* The globals take the values of snapshot s; a list object nothing refers
\* to any more is gone.
Store(s) ==
    /\ component_registry' = s.reg
    /\ component_factories' = s.fac
    /\ factory_registration_functions' = s.rf
    /\ cleanup_callbacks' = s.cb
    /\ component_metadata' = s.meta
    /\ heap' = Live(s.heap, Range(s.meta) \cup Range(returned.dict))
    /\ engine' = s.engine
    /\ disposed' = s.disposed
    /\ nextObj' = s.nextObj

\* What the run remembers of its past operations.
Remember(op, name, res) ==
    /\ first_resolved' =
         IF op = "clear_registry" THEN EmptyDict
         ELSE IF /\ op = "get_component" /\ res.ok
                 /\ ~Has(first_resolved, name)
                 /\ Has(component_factories, name)
                 /\ ~Has(component_registry, name)
         THEN Put(first_resolved, name, res.val)
         ELSE first_resolved
    /\ reregistered' =
         IF op = "clear_registry" THEN {}
         ELSE IF op = "register_component" THEN reregistered \cup {name}
         ELSE reregistered
    /\ before' =
         IF op = "get_component" /\ last.op = "get_component" /\ last.name = name
         THEN [ok |-> last.res.ok, via |-> Via(calls), tier |-> Tier(calls),
               kind |-> last.res.err.kind, val |-> last.res.val]
         ELSE IF op = "get_component" /\ last.op = "clear_registry"
         THEN [NoBefore EXCEPT !.kind = "cleared"]
         ELSE IF op = "get_component" /\ last.op = "register_components_from_config"
         THEN [NoBefore EXCEPT !.kind = "configured"]
         ELSE NoBefore

\* One operation of the sequential run: its effect and what it is recorded as.
Perform(op, name, args, s, res, invoked) ==
    /\ ops < MaxOps
    /\ s.nextObj <= MaxObjects + 1
    /\ Store(s)
    /\ ops' = ops + 1
    /\ last' = [op |-> op, name |-> name, args |-> args, res |-> res]
    /\ calls' = invoked
    /\ Remember(op, name, res)
    /\ UNCHANGED <<parVars, callerVars, pipeVars, idVars, logVars, sessVars, getVars, envVars, userVars>>

RegisterComponentFactory ==
    \E name \in RegNames, factory \in FactoryInputs :
      \E cb \in CleanupInputsFor(factory) :
        Perform("register_component_factory", name, Args(factory, cb),
                register_component_factory(St, name, factory, cb),
                Returned(0), <<>>)

RegisterFactoryRegistrationFunction ==
    \E name \in RegNames, registration_func \in RegistrarInputs :
        Perform("register_factory_registration_function", name,
                Args(registration_func, NoCallback),
                register_factory_registration_function(St, name, registration_func),
                Returned(0), <<>>)

\* The component handed over is an object built by the caller.
RegisterComponent ==
    \E name \in RegNames, cb \in CleanupInputs \ {CloseConnectionPool} :
        Perform("register_component", name, Args(NoCallback, cb),
                register_component([St EXCEPT !.nextObj = @ + 1], name, nextObj, cb),
                Returned(0), <<>>)

GetComponent ==
    \E name \in AllNames :
        \E fo \in OutcomesFor(St, name) :
            LET r == get_component(St, name, fo) IN
            Perform("get_component", name, NoArgs, r.s, r.res, r.calls)

\* The list handed over is an object built by the caller.
SetComponentMetadata ==
    \E name \in RegNames, metadata \in MetadataInputs :
        LET list == NewRef(heap) IN
        Perform("set_component_metadata", name, NoArgs,
                set_component_metadata([St EXCEPT !.heap = Put(@, list, metadata)],
                                       name, list),
                Returned(0), <<>>)

CleanupAllComponents ==
    \E raising \in SUBSET DOMAIN cleanup_callbacks :
        LET r == cleanup_all_components(St, raising) IN
        Perform("cleanup_all_components", "", NoArgs, r.s, r.res, r.calls)

ClearRegistry ==
    Perform("clear_registry", "", NoArgs, clear_registry(St), Returned(0), <<>>)

\* register_components_from_config on one of the given configurations.
RegisterComponentsFromConfigOf(configs) ==
    \E config \in configs :
        LET built == Build(St, config) IN
        Perform("register_components_from_config", "", ArgsOfConfig(config),
                register_components_from_config(built.s, built.config),
                Returned(0), <<>>)

RegisterComponentsFromConfig == RegisterComponentsFromConfigOf(ConfigInputs)

Next ==
    \/ RegisterComponentFactory
    \/ RegisterFactoryRegistrationFunction
    \/ RegisterComponent
    \/ GetComponent
    \/ SetComponentMetadata
    \/ CleanupAllComponents
    \/ ClearRegistry
    \/ RegisterComponentsFromConfig

Spec == Init /\ [][Next]_vars

(* ----------------------------- SpecConfig ----------------------------- *)
(* The application registers its components from configurations whose     *)
(* MySQL lists mix entries that are up and down, and resolves them.       *)

StatusConfigInputs ==
    {<<Item("database", <<Entry("h2:3306", "down"), Entry("h1:3306", "up")>>)>>,
     <<Item("database", <<Entry("h1:3306", "up"), Entry("h2:3306", "down")>>)>>,
     <<Item("mysql", <<Entry("h1:3306", "up")>>)>>,
     <<Item("db", <<Entry("h2:3306", "down")>>)>>,
     <<Item("database", <<Entry("h2:3306", "down")>>),
       Item("mysql", <<Entry("h1:3306", "up")>>)>>}

NextConfig ==
    \/ RegisterComponentsFromConfigOf(StatusConfigInputs)
    \/ GetComponent

SpecConfig == Init /\ [][NextConfig]_vars

(* ------------------------------ SpecPar ------------------------------- *)
(* create_user and get_users are synchronous handlers, which the framework  *)
(* runs on worker threads; each calls get_component("database") first.      *)
(* A thread executes one statement of get_component per step.               *)

\* The name the handlers resolve.
HandlerComponent == "database"

\* A step of the parallel run that records nothing in the history.
ParFrame == UNCHANGED <<historyVars, callerVars, pipeVars, idVars, logVars, sessVars, getVars, envVars, userVars>>

\* Process start: the registry is filled from the configuration, or a
\* factory is registered directly.
ParStartup ==
    /\ last.op = "init"
    /\ \/ LET built == Build(St, <<Item("mysql", <<Entry("h1:3306", "up")>>)>>)
          IN  Store(register_components_from_config(built.s, built.config))
       \/ Store(register_component_factory(St, HandlerComponent,
                   Callable("create_mysql", "h1:3306"), CloseConnectionPool))
       \/ Store(register_component_factory(St, HandlerComponent,
                   Callable("make_component", ""), Callable("release", "")))
    /\ last' = [last EXCEPT !.op = "startup"]
    /\ UNCHANGED <<ops, pc, local, stopped>>
    /\ ParFrame

\* Thread t goes to position p with locals l; the globals become s.
ParStep(t, p, l, s) ==
    /\ Store(s)
    /\ pc' = [pc EXCEPT ![t] = p]
    /\ local' = [local EXCEPT ![t] = l]
    /\ UNCHANGED <<ops, stopped>>
    /\ ParFrame

\* A request arrives and its handler calls get_component("database").
ParHandlerCall(t) ==
    /\ last.op # "init" /\ ~stopped
    /\ pc[t] = "idle"
    /\ ops < MaxOps
    /\ ops' = ops + 1
    /\ pc' = [pc EXCEPT ![t] = "check_instance"]
    /\ local' = [local EXCEPT ![t] = NoLocal]
    /\ UNCHANGED <<registryVars, poolVars, nextObj, last, stopped>>
    /\ ParFrame

\* if name in _component_registry: return _component_registry[name]
ParCheckInstance(t) ==
    /\ pc[t] = "check_instance"
    /\ UNCHANGED last
    /\ IF Has(component_registry, HandlerComponent)
       THEN ParStep(t, "done",
                [local[t] EXCEPT !.res = Returned(component_registry[HandlerComponent])],
                St)
       ELSE ParStep(t, "check_factory", local[t], St)

\* if name in _component_factories: factory = _component_factories[name]
ParCheckFactory(t) ==
    /\ pc[t] = "check_factory"
    /\ UNCHANGED last
    /\ IF Has(component_factories, HandlerComponent)
       THEN ParStep(t, "call_factory",
                [local[t] EXCEPT !.factory = component_factories[HandlerComponent]],
                St)
       ELSE ParStep(t, "check_registrar", local[t], St)

\* if name in _factory_registration_functions: registration_func();
\* otherwise the KeyError.
ParCallRegistrar(t) ==
    /\ pc[t] = "check_registrar"
    /\ UNCHANGED last
    /\ IF Has(factory_registration_functions, HandlerComponent)
       THEN LET done == InvokeRegistrar(St,
                            factory_registration_functions[HandlerComponent])
            IN  IF done.res.ok
                THEN ParStep(t, "check_registered", local[t], done.s)
                ELSE ParStep(t, "done",
                        [local[t] EXCEPT !.res = Raised(Reraise(done.res.err,
                                                               HandlerComponent))],
                        done.s)
       ELSE ParStep(t, "done",
                [local[t] EXCEPT !.res = Raised(NotRegistered(St, HandlerComponent))],
                St)

\* After the registrar: if name in _component_factories: factory = ...;
\* otherwise the RuntimeError.
ParCheckRegistered(t) ==
    /\ pc[t] = "check_registered"
    /\ UNCHANGED last
    /\ IF Has(component_factories, HandlerComponent)
       THEN ParStep(t, "call_factory",
                [local[t] EXCEPT !.factory = component_factories[HandlerComponent]],
                St)
       ELSE ParStep(t, "done",
                [local[t] EXCEPT !.res = Raised(Reraise(DidNotRegister(HandlerComponent),
                                                       HandlerComponent))],
                St)

\* component = factory(), for a factory other than create_mysql: one step.
ParCallFactory(t) ==
    /\ pc[t] = "call_factory"
    /\ local[t].factory.fn # "create_mysql"
    /\ UNCHANGED last
    /\ \E fo \in FactoryOutcomes(local[t].factory) :
          LET made == make_component(St, fo) IN
          /\ made.s.nextObj <= MaxObjects + 1
          /\ IF made.res.ok
             THEN ParStep(t, "store",
                     [local[t] EXCEPT !.component = made.res.val, !.made = TRUE],
                     made.s)
             ELSE ParStep(t, "done",
                     [local[t] EXCEPT !.res = Raised(Reraise(made.res.err,
                                                            HandlerComponent))],
                     made.s)

\* component = factory(), create_mysql, first half: init_connection_pool(...).
ParInitConnectionPool(t) ==
    /\ pc[t] = "call_factory"
    /\ local[t].factory.fn = "create_mysql"
    /\ UNCHANGED last
    /\ \E fo \in FactoryOutcomes(local[t].factory) :
          LET p == init_connection_pool(St, fo) IN
          /\ p.s.nextObj <= MaxObjects + 1
          /\ IF p.res.ok
             THEN ParStep(t, "get_engine", local[t], p.s)
             ELSE ParStep(t, "done",
                     [local[t] EXCEPT !.res = Raised(Reraise(p.res.err,
                                                            HandlerComponent))],
                     p.s)

\* create_mysql, second half: engine = get_engine();
\* _update_component_status("mysql", host_port, "up"); return engine.
ParGetEngine(t) ==
    /\ pc[t] = "get_engine"
    /\ UNCHANGED last
    /\ LET e == get_engine(St) IN
       IF e.ok
       THEN ParStep(t, "store",
               [local[t] EXCEPT !.component = e.val, !.made = TRUE],
               _update_component_status(St, "mysql", local[t].factory.host_port, "up"))
       ELSE ParStep(t, "done",
               [local[t] EXCEPT !.res = Raised(Reraise(e.err, HandlerComponent))],
               St)

\* _component_registry[name] = component; return component
ParStore(t) ==
    /\ pc[t] = "store"
    /\ ParStep(t, "done",
          [local[t] EXCEPT !.res = Returned(local[t].component)],
          CacheComponent(St, HandlerComponent, local[t].component))
    /\ last' = [op |-> "store", name |-> HandlerComponent, args |-> NoArgs,
                res |-> Returned(local[t].component)]

\* The handler is done with the request.
ParReturn(t) ==
    /\ pc[t] = "done"
    /\ pc' = [pc EXCEPT ![t] = "idle"]
    /\ local' = [local EXCEPT ![t] = NoLocal]
    /\ UNCHANGED <<registryVars, poolVars, nextObj, ops, last, stopped>>
    /\ ParFrame

\* Shutdown as cleanup_all_components documents it ("This should be called
\* at application shutdown"), once no thread is inside get_component.
ParShutdown ==
    /\ last.op # "init" /\ ~stopped
    /\ \A t \in Threads : pc[t] \in {"idle", "done"}
    /\ \E raising \in SUBSET DOMAIN cleanup_callbacks :
          LET r == cleanup_all_components(St, raising) IN
          Store(r.s) /\ calls' = r.calls
    /\ stopped' = TRUE
    /\ UNCHANGED <<ops, last, pc, local, first_resolved, reregistered, before,
                   callerVars, pipeVars, idVars, logVars, sessVars, getVars, envVars, userVars>>

NextPar ==
    \/ ParStartup
    \/ ParShutdown
    \/ \E t \in Threads :
          \/ ParHandlerCall(t)
          \/ ParCheckInstance(t)
          \/ ParCheckFactory(t)
          \/ ParCallRegistrar(t)
          \/ ParCheckRegistered(t)
          \/ ParCallFactory(t)
          \/ ParInitConnectionPool(t)
          \/ ParGetEngine(t)
          \/ ParStore(t)
          \/ ParReturn(t)

SpecPar == Init /\ [][NextPar]_vars

(* ------------------------------ SpecLife ------------------------------ *)
(* The application as main() builds it: FastAPI(lifespan=server.lifespan). *)
(* The handlers run as in SpecPar; the server stops by leaving the         *)
(* lifespan context.                                                       *)

\* server.lifespan after its yield: logger.Infow("Server shutting down").
\* The framework leaves the context once no request is in flight.
LifespanExit ==
    /\ last.op # "init" /\ ~stopped
    /\ \A t \in Threads : pc[t] \in {"idle", "done"}
    /\ stopped' = TRUE
    /\ calls' = <<>>
    /\ UNCHANGED <<registryVars, poolVars, nextObj, ops, last, pc, local,
                   first_resolved, reregistered, before, callerVars, pipeVars,
                   idVars, logVars, sessVars, getVars, envVars, userVars>>

NextLife ==
    \/ ParStartup
    \/ LifespanExit
    \/ \E t \in Threads :
          \/ ParHandlerCall(t)
          \/ ParCheckInstance(t)
          \/ ParCheckFactory(t)
          \/ ParCallRegistrar(t)
          \/ ParCheckRegistered(t)
          \/ ParCallFactory(t)
          \/ ParInitConnectionPool(t)
          \/ ParGetEngine(t)
          \/ ParStore(t)
          \/ ParReturn(t)

SpecLife == Init /\ [][NextLife]_vars

(* ------------------------------ SpecMeta ------------------------------ *)
(* A caller keeps the dict get_component_metadata handed it and writes to  *)
(* it, while the registry goes on being used.                               *)

\* The values a caller writes to a key of an entry.
EntryValues(key) ==
    IF key = "status" THEN {"up", "down"} ELSE {"h9:3306"}

\* A step of the caller: it holds dict, the list objects are hp.
CallerStep(op, name, hp, dict) ==
    /\ ops < MaxOps
    /\ ops' = ops + 1
    /\ returned' = [held |-> TRUE, dict |-> dict]
    /\ heap' = Live(hp, Range(component_metadata) \cup Range(dict))
    /\ last' = [op |-> op, name |-> name, args |-> NoArgs, res |-> Returned(0)]
    /\ calls' = <<>>
    /\ before' = NoBefore
    /\ UNCHANGED <<component_registry, component_factories,
                   factory_registration_functions, cleanup_callbacks,
                   component_metadata, poolVars, nextObj, first_resolved,
                   reregistered, parVars, pipeVars, idVars, logVars, sessVars, getVars, envVars, userVars>>

\* metadata = get_component_metadata()
GetComponentMetadata ==
    CallerStep("get_component_metadata", "", heap, get_component_metadata(St))

\* metadata[name] = [...], a list the caller builds
CallerSetsName ==
    /\ returned.held
    /\ \E name \in AllNames, items \in MetadataInputs :
          LET list == NewRef(heap) IN
          CallerStep("caller_sets_name", name, Put(heap, list, items),
                     Put(returned.dict, name, list))

\* del metadata[name]
CallerDeletesName ==
    /\ returned.held
    /\ \E name \in DOMAIN returned.dict :
          CallerStep("caller_deletes_name", name, heap,
                     Remove(returned.dict, name))

\* metadata[name][i][key] = value
CallerWritesEntry ==
    /\ returned.held
    /\ \E name \in DOMAIN returned.dict :
          LET list == returned.dict[name] IN
          \E i \in DOMAIN heap[list], key \in {"host", "status"} :
              \E value \in EntryValues(key) :
                  CallerStep("caller_writes_entry", name,
                             [heap EXCEPT ![list][i][key] = value],
                             returned.dict)

NextMeta ==
    \/ RegisterComponentsFromConfig
    \/ SetComponentMetadata
    \/ GetComponent
    \/ ClearRegistry
    \/ GetComponentMetadata
    \/ CallerSetsName
    \/ CallerDeletesName
    \/ CallerWritesEntry

SpecMeta == Init /\ [][NextMeta]_vars

(* ------------------------------ SpecPipe ------------------------------ *)
(* Requests go through the middleware stack of the application. Each is    *)
(* handled by tasks of its own: a stage runs in the task of the stage      *)
(* around it until its call_next, which starts the rest of the stack in a  *)
(* new task. A task runs without interruption between two awaits.          *)

\* The stage request r is in: a middleware of the stack, or the router.
StageAt(r) ==
    IF rq[r].depth \in DOMAIN Stack THEN Stack[rq[r].depth] ELSE "router"

\* A step of the pipeline leaves the registry alone.
PipeFrame ==
    UNCHANGED <<registryVars, poolVars, nextObj, ops, last, historyVars,
                parVars, callerVars, idVars, logVars, sessVars, getVars, envVars, userVars>>

\* Request r goes on: its record, the contexts, the events it adds.
PipeStep(r, record, ctx, added) ==
    /\ rq' = [rq EXCEPT ![r] = record]
    /\ request_id_var' = ctx
    /\ events' = [events EXCEPT ![r] = @ \o added]
    /\ UNCHANGED <<sent, outside>>
    /\ PipeFrame

\* await call_next(request): the rest of the stack starts in a new task.
CallNext(r, record, ctx, added) ==
    PipeStep(r, [record EXCEPT !.pc = "enter", !.depth = @ + 1],
             copy_context(ctx, Task(r, record.depth), Task(r, record.depth + 1)),
             added)

\* A stage returns (or an exception leaves it) to the stage around it,
\* which gets what the stage sends as a streaming response; out of the
\* outermost stage the framework sends the response, or its own error
\* response when it was an exception.
Return(r, record, added) ==
    LET handed == [record EXCEPT !.response = StreamingResponse(@)] IN
    /\ rq' = [rq EXCEPT ![r] =
                 [handed EXCEPT !.depth = @ - 1,
                                !.pc = IF record.depth = 1 THEN "done" ELSE "resume"]]
    /\ sent' = IF record.depth = 1
               THEN [sent EXCEPT ![r] = IF record.raised THEN ServerErrorResponse
                                        ELSE handed.response]
               ELSE sent
    /\ events' = [events EXCEPT ![r] = @ \o added]
    /\ UNCHANGED <<request_id_var, outside>>
    /\ PipeFrame

\* A request arrives: the server handles it in a new task.
RequestArrives(r, requests) ==
    /\ rq[r].pc = "idle"
    /\ \E request \in requests :
          PipeStep(r, [NoRequest EXCEPT !.pc = "enter", !.depth = 1,
                                        !.request = request],
                   copy_context(request_id_var, MainTask, Task(r, 1)), <<>>)

\* add_request_id up to its call_next.
AddRequestIdIn(r) ==
    /\ rq[r].pc = "enter" /\ StageAt(r) = "add_request_id"
    /\ LET request_id ==
               _get_or_generate_request_id(rq[r].request.headers, uuid4(r)) IN
       CallNext(r, [rq[r] EXCEPT !.request_id = request_id],
                set_request_id(request_id_var, Task(r, rq[r].depth), request_id),
                <<Event("bind", request_id)>>)

\* add_request_id after its call_next.
AddRequestIdOut(r) ==
    /\ rq[r].pc = "resume" /\ StageAt(r) = "add_request_id"
    /\ IF rq[r].raised THEN Return(r, rq[r], <<>>)
       ELSE LET out == StampRequestId(rq[r].response, rq[r].request_id) IN
            Return(r, [rq[r] EXCEPT !.response = out.response,
                                    !.raised = out.raised,
                                    !.downstream = rq[r].response,
                                    !.read_by_id_stage = out.read],
                   <<Event("stamp", rq[r].request_id)>>)

\* log_request up to the end of await read_and_parse_request_body(request).
LogRequestReadBody(r) ==
    /\ rq[r].pc = "enter" /\ StageAt(r) = "log_request"
    /\ LET read == read_and_parse_request_body(rq[r].request.headers,
                       rq[r].request.body, rq[r].request.readable) IN
       PipeStep(r, [rq[r] EXCEPT !.pc = "body_read",
                                 !.should_log = ShouldLog(rq[r].request.path),
                                 !.request_body = read.request_body,
                                 !.body_bytes = read.body_bytes,
                                 !.stream_reads = @ + 1],
                request_id_var, <<>>)

\* log_request from there to its call_next.
LogRequestIn(r) ==
    /\ rq[r].pc = "body_read" /\ StageAt(r) = "log_request"
    /\ CallNext(r, [rq[r] EXCEPT
                        !.receive = DownstreamReceive(rq[r].body_bytes),
                        !.state_body = rq[r].request_body,
                        !.direct_body = rq[r].request_body,
                        !.logged_body = IF rq[r].should_log
                                        THEN rq[r].request_body ELSE @],
                request_id_var,
                IF rq[r].should_log
                THEN <<Event("log_incoming",
                             get_request_id(request_id_var, Task(r, rq[r].depth)))>>
                ELSE <<>>)

\* log_request after its call_next.
LogRequestOut(r) ==
    /\ rq[r].pc = "resume" /\ StageAt(r) = "log_request"
    /\ IF rq[r].raised THEN Return(r, rq[r], <<>>)
       ELSE Return(r, [rq[r] EXCEPT !.response = RebuildResponse(@)],
                   IF rq[r].should_log
                   THEN <<Event("log_completed",
                                get_request_id(request_id_var, Task(r, rq[r].depth)))>>
                   ELSE <<>>)

\* The route handler: it calls get_body and get_request_body on its
\* request, an object that has the state of the request log_request had and
\* may or may not have the body attribute log_request stored; it reads the
\* body stream of its request some number of times, logs with the request
\* ID it sees, and returns or raises.
Handler(r, outcomes, reads) ==
    /\ rq[r].pc = "enter" /\ StageAt(r) = "router"
    /\ \E outcome \in outcomes, n \in reads,
          direct_body \in {Absent, rq[r].direct_body} :
          Return(r, [rq[r] EXCEPT
                        !.handler_body = get_body(direct_body, rq[r].state_body),
                        !.handler_state_body = get_request_body(rq[r].state_body),
                        !.outcome = outcome,
                        !.response = HandlerResponse(outcome),
                        !.raised = (outcome = "raised"),
                        !.read_back = [i \in 1..n |-> Receive(rq[r])],
                        !.stream_reads =
                            IF rq[r].receive = "connection" THEN @ + n ELSE @],
                 <<Event("handler",
                         get_request_id(request_id_var, Task(r, rq[r].depth)))>>)

\* Code outside every request logs: the lifespan.
LifespanLog ==
    /\ outside' = outside \cup {get_request_id(request_id_var, MainTask)}
    /\ UNCHANGED <<rq, request_id_var, events, sent>>
    /\ PipeFrame

NextPipe ==
    \/ LifespanLog
    \/ \E r \in Requests :
          \/ RequestArrives(r, RequestInputs)
          \/ AddRequestIdIn(r)
          \/ LogRequestReadBody(r)
          \/ LogRequestIn(r)
          \/ Handler(r, HandlerOutcomes, {0})
          \/ LogRequestOut(r)
          \/ AddRequestIdOut(r)

SpecPipe == Init /\ [][NextPipe]_vars

(* ------------------------------ SpecBody ------------------------------ *)
(* One request with a body goes through the middleware stack, and the      *)
(* handler answers with any of the responses a handler can build.          *)

BodyRequestHeaderInputs ==
    {<<>>,
     << <<"content-type", "application/json">>, <<"X-Request-ID", "abc">> >>,
     << <<"content-type", "text/plain">> >>}

BodyRequestInputs ==
    {Request(path, headers, body, readable) :
        path \in PathInputs, headers \in BodyRequestHeaderInputs,
        body \in {<<>>, JsonRender(HelloWorld), Chars(5), BadBytes(2)},
        readable \in BOOLEAN}

BodyHandlerOutcomes ==
    HandlerOutcomes \cup
    {"text_with_id", "json_with_request_id", "json_nan", "json_key_twice", "json_list",
     "json_malformed", "json_bad_utf8", "json_empty", "json_charset",
     "json_capitals", "text_json_body", "no_content_type", "text_cookies",
     "json_cookies"}

NextBody ==
    \/ RequestArrives(1, BodyRequestInputs)
    \/ AddRequestIdIn(1)
    \/ LogRequestReadBody(1)
    \/ LogRequestIn(1)
    \/ Handler(1, BodyHandlerOutcomes, 0..MaxReads)
    \/ LogRequestOut(1)
    \/ AddRequestIdOut(1)

SpecBody == Init /\ [][NextBody]_vars

(* ----------------------------- SpecBodies ---------------------------- *)
(* Requests with bodies of their own go through the middleware stack at    *)
(* the same time; their handlers ask for the parsed body.                  *)

BodiesRequestInputs ==
    {Request("/", << <<"content-type", "application/json">> >>, body, TRUE) :
        body \in {<<>>, JsonRender(HelloWorld), JsonRender(NotFound), Chars(5)}}
    \cup {Request("/health", << <<"content-type", "text/plain">> >>, Chars(5), TRUE),
          Request("/", << <<"content-type", "text/plain">> >>, Chars(5), FALSE)}

NextBodies ==
    \E r \in Requests :
        \/ RequestArrives(r, BodiesRequestInputs)
        \/ AddRequestIdIn(r)
        \/ LogRequestReadBody(r)
        \/ LogRequestIn(r)
        \/ Handler(r, {"json_mapping"}, {0})
        \/ LogRequestOut(r)
        \/ AddRequestIdOut(r)

SpecBodies == Init /\ [][NextBodies]_vars

(* ------------------------------- SpecId ------------------------------- *)
(* _get_or_generate_request_id on the headers a client may send.           *)

HeaderNames == {"Request-ID", "x-request-id", "accept"}
HeaderValues == {"", "abc", "xyz"}

\* The header lists of at most n pairs.
RECURSIVE HeaderLists(_)
HeaderLists(n) ==
    IF n = 0 THEN {<<>>}
    ELSE HeaderLists(n - 1) \cup
         {Append(h, <<name, value>>) :
             h \in HeaderLists(n - 1), name \in HeaderNames, value \in HeaderValues}

ChooseRequestId ==
    /\ ~given.applied
    /\ \E headers \in HeaderLists(MaxHeaders), r \in Requests :
          /\ given' = [applied |-> TRUE, headers |-> headers, fresh |-> uuid4(r)]
          /\ chosen' = _get_or_generate_request_id(headers, uuid4(r))
    /\ UNCHANGED <<registryVars, poolVars, nextObj, ops, last, historyVars,
                   parVars, callerVars, pipeVars, logVars, sessVars, getVars, envVars, userVars>>

NextId == ChooseRequestId

SpecId == Init /\ [][NextId]_vars

(* ------------------------------- SpecLog ------------------------------ *)
(* The functions of bodylogger.py on the headers and bodies a request or   *)
(* a response may carry: a run calls one of them on one input.             *)

LogHeaderNames == {"Authorization", "cookie", "X-API-Key", "api-key", "accept"}
LogHeaderValues == {"s1", "s2"}

\* The dicts of at most n headers.
RECURSIVE HeaderDicts(_)
HeaderDicts(n) ==
    IF n = 0 THEN {<<>>}
    ELSE HeaderDicts(n - 1) \cup
         UNION {{Append(h, <<name, value>>) :
                    name \in LogHeaderNames \ ItemKeys(h),
                    value \in LogHeaderValues} :
                h \in {d \in HeaderDicts(n - 1) : Len(d) = n - 1}}

\* JSON documents a body may be.
SmallObject == DictValue(<< <<"message", "1">> >>)
TwiceObject == DictValue(<< <<"message", "1">>, <<"message", "2">> >>)
NanObject == DictValue(<< <<"message", "NaN">> >>)

BodyInputs ==
    {<<>>,
     Chars(5), Chars(LOGGED_BODY_CHARS), Chars(LOGGED_BODY_CHARS + 1),
     BadBytes(3),
     Chars(LOGGED_BODY_CHARS - 1) \o BadBytes(2),
     JsonText(Doc(SmallObject, 16)),
     JsonText(Doc(TwiceObject, 30)),
     JsonText(Doc(NanObject, 18)),
     JsonText(Doc(ListValue, 2)),
     JsonText(Doc(SmallObject, LOGGED_BODY_CHARS + 100)),
     JsonText(Doc(SmallObject, 16)) \o BadBytes(1),
     Chars(1) \o JsonText(Doc(SmallObject, 16))}

ContentTypeInputs ==
    {"", "application/json", "application/json; charset=utf-8",
     "multipart/related; type=application/json", "text/plain",
     "Application/JSON"}

LogFrame ==
    UNCHANGED <<registryVars, poolVars, nextObj, ops, last, historyVars,
                parVars, callerVars, pipeVars, idVars, sessVars, getVars, envVars, userVars>>

\* log_incoming_request for a request without query parameters or body,
\* called once.
LogIncomingRequest ==
    /\ ~logged.applied /\ ~parsed.applied
    /\ \E headers \in HeaderDicts(MaxHeaders) :
          logged' = [applied |-> TRUE, headers |-> headers,
                     record |-> log_incoming_request("GET", "/", "unknown",
                                   headers, <<>>, NoneValue)]
    /\ UNCHANGED parsed
    /\ LogFrame

\* parse_request_body and parse_response_body on one body, called once.
ParseBody ==
    /\ ~logged.applied /\ ~parsed.applied
    /\ \E body_bytes \in BodyInputs, content_type \in ContentTypeInputs :
          parsed' = [applied |-> TRUE, body_bytes |-> body_bytes,
                     content_type |-> content_type,
                     request |-> parse_request_body(body_bytes, content_type),
                     response |-> parse_response_body(body_bytes, content_type)]
    /\ UNCHANGED logged
    /\ LogFrame

NextLog == LogIncomingRequest \/ ParseBody

SpecLog == Init /\ [][NextLog]_vars

(* ----------------------------- SpecSession ---------------------------- *)
(* Callers run `with get_db_session() as session:` blocks, as create_user  *)
(* does, while the connection pool is opened and closed.                   *)

\* What the block of the caller raises: nothing, the HTTPException of
\* create_user for a known email, the error of session.flush(), or an
\* interrupt.
BlockOutcomes == {NoException, "HTTPException", "IntegrityError", "KeyboardInterrupt"}

\* What session.commit() and session.rollback() raise.
CommitOutcomes == {NoException, "commit: OperationalError", "commit: KeyboardInterrupt"}
RollbackOutcomes == {NoException, "rollback: OperationalError"}

SessionFrame ==
    UNCHANGED <<registryVars, ops, last, historyVars, parVars, callerVars,
                pipeVars, idVars, logVars, getVars, envVars, userVars>>

\* init_connection_pool() succeeds.
OpenPool ==
    /\ nextObj <= MaxObjects
    /\ LET s == init_connection_pool(St, "ok").s IN
       /\ engine' = s.engine
       /\ nextObj' = s.nextObj
    /\ UNCHANGED <<disposed, sess>>
    /\ SessionFrame

\* close_connection_pool()
ClosePool ==
    /\ LET s == close_connection_pool(St) IN
       /\ engine' = s.engine
       /\ disposed' = s.disposed
    /\ UNCHANGED <<nextObj, sess>>
    /\ SessionFrame

\* Caller c enters its with statement: get_session() gives it a session, or
\* raises and the statement is over.
EnterBlock(c) ==
    /\ sess[c].pc = "idle"
    /\ sess' = [sess EXCEPT ![c] =
                   IF get_session(St) = NoException
                   THEN [@ EXCEPT !.pc = "block", !.acquired = TRUE]
                   ELSE [@ EXCEPT !.pc = "done", !.raises = get_session(St)]]
    /\ UNCHANGED <<poolVars, nextObj>>
    /\ SessionFrame

\* The block of caller c ends or raises, and get_db_session runs to its end.
LeaveBlock(c) ==
    /\ sess[c].pc = "block"
    /\ \E block \in BlockOutcomes, commit \in CommitOutcomes,
          rollback \in RollbackOutcomes :
          LET exit == get_db_session(block, commit, rollback)
              called(name) == \E i \in DOMAIN exit.calls : exit.calls[i] = name
          IN  sess' = [sess EXCEPT ![c] =
                  [@ EXCEPT !.pc = "done",
                            !.block = block,
                            !.commit = IF called("commit") THEN commit
                                       ELSE NoException,
                            !.rollback = IF called("rollback") THEN rollback
                                         ELSE NoException,
                            !.calls = exit.calls,
                            !.raises = exit.raises]]
    /\ UNCHANGED <<poolVars, nextObj>>
    /\ SessionFrame

NextSession ==
    \/ OpenPool
    \/ ClosePool
    \/ \E c \in Callers : EnterBlock(c) \/ LeaveBlock(c)

SpecSession == Init /\ [][NextSession]_vars

(* ------------------------------ SpecEnv ------------------------------- *)
(* The operator puts configuration files in place, or leaves them out,     *)
(* and the server process starts: main.py calls InitializeConfig.          *)

\* The paths of the candidates, resolved.
ConfigPaths == {ResolvedPath(config_files[i]) : i \in DOMAIN config_files}

\* What the operator may leave at a candidate's path.
FileInputs ==
    {MissingFile, UnreadableFile, MalformedFile,
     JsonFile(NoneValue), JsonFile(ListValue), JsonFile(DictValue(<<>>)),
     JsonFile(DictValue(<< <<"server_port", "9090">>,
                           <<"unknown", "x">> >>)),
     JsonFile(DictValue(<< <<"db_host", "h1">>, <<"Db_Name", "prod">> >>))}

EnvFrame ==
    UNCHANGED <<registryVars, poolVars, nextObj, ops, last, historyVars,
                parVars, callerVars, pipeVars, idVars, logVars, sessVars,
                getVars, userVars>>

\* The operator writes, replaces or removes the file at path.
PutConfigFile(path, file) ==
    /\ ~env_load.applied
    /\ env_load' = [env_load EXCEPT !.fs[path] = file]
    /\ EnvFrame

\* The process starts and loads its configuration.
StartProcess ==
    /\ ~env_load.applied
    /\ env_load' = [env_load EXCEPT !.applied = TRUE,
                                    !.load = InitializeConfig(env_load.fs)]
    /\ EnvFrame

NextEnv ==
    \/ \E path \in ConfigPaths : \E file \in FileInputs :
          PutConfigFile(path, file)
    \/ StartProcess

SpecEnv == Init /\ [][NextEnv]_vars

(* ------------------------------ SpecUsers ----------------------------- *)
(* POST /users requests run create_user on worker threads, each with a     *)
(* session of its own on the same users table.                             *)

\* The bodies get_body gives create_user.
UserBodyInputs ==
    {NoneValue, StrValue(Chars(5)),
     DictValue(<< <<"name", "n">>, <<"email", "a@x">> >>),
     DictValue(<< <<"name", "n">>, <<"email", "a@x">>, <<"password", "p">> >>),
     DictValue(<< <<"name", "m">>, <<"email", "b@x">>, <<"password", "q">> >>)}

UsersFrame ==
    UNCHANGED <<ops, historyVars, parVars, callerVars, pipeVars, idVars,
                logVars, sessVars, getVars, envVars>>

\* Process start: the registry is filled from the configuration.
UsersStartup ==
    /\ last.op = "init"
    /\ LET built == Build(St, <<Item("mysql", <<Entry("h1:3306", "up")>>)>>)
       IN  Store(register_components_from_config(built.s, built.config))
    /\ last' = [last EXCEPT !.op = "startup"]
    /\ UNCHANGED userVars
    /\ UsersFrame

\* Caller c's request arrives: get_component("database"), get_body and the
\* checks of the fields.
CreateUserCall(c) ==
    /\ last.op # "init"
    /\ creators[c].pc = "idle"
    /\ \E body \in UserBodyInputs, fo \in OutcomesFor(St, HandlerComponent) :
          LET r == get_component(St, HandlerComponent, fo)
              early == create_user_fields(body)
          IN  /\ r.s.nextObj <= MaxObjects + 1
              /\ Store(r.s)
              /\ creators' = [creators EXCEPT ![c] =
                    IF ~r.res.ok
                    THEN [@ EXCEPT !.pc = "done", !.body = body,
                              !.reply = Reply(500, "Internal Server Error", 0)]
                    ELSE IF early # NoReply
                    THEN [@ EXCEPT !.pc = "done", !.body = body,
                                   !.reply = early]
                    ELSE [@ EXCEPT !.pc = "session", !.body = body,
                              !.email = DictGet(body.items, "email", None)]]
    /\ UNCHANGED <<last, users_table>>
    /\ UsersFrame

\* Caller c enters with get_db_session() and selects the user of its email.
CreateUserSelect(c) ==
    /\ creators[c].pc = "session"
    /\ creators' = [creators EXCEPT ![c] =
          IF get_session(St) # NoException
          THEN [@ EXCEPT !.pc = "done",
                         !.reply = create_user_after_block(get_session(St), 0)]
          ELSE IF select_by_email(users_table, creators[c].email) # {}
          THEN [@ EXCEPT !.pc = "done",
                         !.reply = create_user_after_block("HTTPException", 0)]
          ELSE [@ EXCEPT !.pc = "selected"]]
    /\ UNCHANGED <<registryVars, poolVars, nextObj, last, users_table>>
    /\ UsersFrame

\* Caller c adds its user and flushes. The INSERT waits while another
\* session holds an uncommitted row of the same email.
CreateUserFlush(c) ==
    /\ creators[c].pc = "selected"
    /\ \A d \in Callers \ {c} :
          ~(creators[d].pc = "flushed" /\ creators[d].email = creators[c].email)
    /\ LET flushed == flush(users_table, creators[c].email) IN
          /\ users_table' = flushed.table
          /\ creators' = [creators EXCEPT ![c] =
                IF flushed.raises # NoException
                THEN [@ EXCEPT !.pc = "done",
                         !.reply = create_user_after_block(flushed.raises, 0)]
                ELSE [@ EXCEPT !.pc = "flushed", !.user_id = flushed.user_id]]
    /\ UNCHANGED <<registryVars, poolVars, nextObj, last>>
    /\ UsersFrame

\* The with block of caller c ends: get_db_session commits and closes, and
\* create_user returns.
CreateUserCommit(c) ==
    /\ creators[c].pc = "flushed"
    /\ users_table' = [users_table EXCEPT !.rows =
                          @ \cup {User(creators[c].user_id, creators[c].email)}]
    /\ creators' = [creators EXCEPT ![c] =
          [@ EXCEPT !.pc = "done",
                    !.reply = create_user_after_block(NoException,
                                                      creators[c].user_id)]]
    /\ UNCHANGED <<registryVars, poolVars, nextObj, last>>
    /\ UsersFrame

NextUsers ==
    \/ UsersStartup
    \/ \E c \in Callers :
          \/ CreateUserCall(c)
          \/ CreateUserSelect(c)
          \/ CreateUserFlush(c)
          \/ CreateUserCommit(c)

SpecUsers == Init /\ [][NextUsers]_vars

(* ----------------------------- SpecGetBody ---------------------------- *)
(* get_body on the request objects a caller may hand it.                   *)

\* What the body entry of request.__dict__ or the body attribute of
\* request.state may be.
AttrInputs ==
    {Absent, NoneValue, Method, ListValue,
     DictValue(<<>>), DictValue(<< <<"test", "data">> >>),
     DictValue(<< <<"fallback", "data">> >>),
     StrValue(<<>>), StrValue(Chars(5)), StrValue(Chars(LOGGED_BODY_CHARS))}

GetBody ==
    /\ ~body_got.applied
    /\ \E direct_body \in AttrInputs, state_body \in AttrInputs :
          body_got' = [applied |-> TRUE, direct_body |-> direct_body,
                       state_body |-> state_body,
                       body |-> get_body(direct_body, state_body)]
    /\ UNCHANGED <<registryVars, poolVars, nextObj, ops, last, historyVars,
                   parVars, callerVars, pipeVars, idVars, logVars, sessVars,
                   envVars, userVars>>

NextGetBody == GetBody

SpecGetBody == Init /\ [][NextGetBody]_vars

(* ------------------------- properties of Spec ------------------------- *)

\* The step is operation op of the sequential run.
Did(op) == ops' = ops + 1 /\ last'.op = op

\* What a get_component_metadata() called now hands back, as values.
MetadataSeen == Deref(heap, get_component_metadata(St))

\* The step is get_component(n).
DidGet(n) == Did("get_component") /\ last'.name = n

\* The calls of factories among the invoked callables.
FactoryCalls(invoked) == SelectSeq(invoked, LAMBDA c : c.kind = "factory")
RegistrarCalls(invoked) == SelectSeq(invoked, LAMBDA c : c.kind = "registrar")

FactoryRaised(l, c) ==
    l.op = "get_component" /\ ~l.res.ok /\ Tier(c) = "factory"

\* C3: when the factory raises inside get_component(name), the call raises
\* the factory's exception and caches nothing; the next get_component(name)
\* calls the factory again and, if it succeeds, caches and returns its result.
C3_FailureNotCachedAndRetried ==
    [][\A n \in AllNames :
         DidGet(n) =>
            /\ FactoryRaised(last', calls') =>
                  /\ last'.res.err.kind \in {"raised_by_callable", "pool_not_initialized"}
                  /\ ~Has(component_registry', n)
            /\ (FactoryRaised(last, calls) /\ last.name = n) =>
                  /\ FactoryCalls(calls') = <<Call("factory", n, component_factories[n])>>
                  /\ last'.res.ok =>
                        /\ Has(component_registry', n)
                        /\ component_registry'[n] = last'.res.val]_vars

\* A get_component whose factory raised was followed by a get_component of
\* the same name whose factory call succeeded.
C3_Witness ==
    /\ last.op = "get_component" /\ last.res.ok /\ Tier(calls) = "factory"
    /\ ~before.ok /\ before.tier = "factory"
    /\ component_registry[last.name] = last.res.val

ComponentInitializationErrorCls == "ComponentInitializationError"

\* C4: when the factory raises inside get_component(name), the caller
\* receives a ComponentInitializationError that carries name, of a class
\* other than those of the not-found and the did-not-register errors.
C4_Claim ==
    FactoryRaised(last, calls) =>
        /\ last.res.err.cls = ComponentInitializationErrorCls
        /\ last.res.err.name = last.name
        /\ last.res.err.cls \notin {KeyErrorCls, RuntimeErrorCls}

\* C5: get_component(name) raises the not-registered KeyError exactly when
\* name is a key of none of the three dictionaries, which is exactly when
\* has_component(name) is false; the error names every key of the three
\* dictionaries and the call changes no dictionary.
C5_NotFoundIffInNoTier ==
    [][\A n \in AllNames :
         DidGet(n) =>
            LET known == DOMAIN component_registry \cup DOMAIN component_factories
                            \cup DOMAIN factory_registration_functions
                notFound == /\ ~last'.res.ok
                            /\ last'.res.err.cls = KeyErrorCls
                            /\ last'.res.err.kind = "not_registered"
            IN  /\ notFound <=> n \notin known
                /\ notFound <=> ~has_component(St, n)
                /\ notFound =>
                      /\ last'.res.err.name = n
                      /\ last'.res.err.available = known
                      /\ calls' = <<>>
                      /\ UNCHANGED registryVars]_vars

\* get_component of an unknown name has just failed while other names are
\* registered in all three tiers.
C5_Witness ==
    /\ last.op = "get_component" /\ ~last.res.ok
    /\ last.res.err.kind = "not_registered"
    /\ last.name \notin last.res.err.available
    /\ DOMAIN component_registry # {}
    /\ DOMAIN component_factories # {}
    /\ DOMAIN factory_registration_functions # {}

\* C6: get_component(name) of a name that has only a registrar calls the
\* registrar once; if the registrar stored a factory under name, it then
\* calls that factory once, caches the instance made and returns it; a
\* get_component(name) that finds the instance returns it and calls nothing.
C6_RegistrarThenFactoryThenCached ==
    [][\A n \in AllNames :
         DidGet(n) =>
            /\ (/\ ~Has(component_registry, n)
                /\ ~Has(component_factories, n)
                /\ Has(factory_registration_functions, n)) =>
                  LET reg_call == Call("registrar", n, factory_registration_functions[n])
                  IN  /\ RegistrarCalls(calls') = <<reg_call>>
                      /\ Has(component_factories', n) =>
                            /\ calls' = <<reg_call,
                                         Call("factory", n, component_factories'[n])>>
                            /\ last'.res.ok =>
                                  /\ Has(component_registry', n)
                                  /\ component_registry'[n] = last'.res.val
            /\ Has(component_registry, n) =>
                  /\ calls' = <<>>
                  /\ last'.res = Returned(component_registry[n])
                  /\ UNCHANGED registryVars]_vars

\* A get_component that went through registrar and factory was followed by
\* a get_component of the same name that returned the same instance and
\* called nothing.
C6_Witness ==
    /\ last.op = "get_component" /\ last.res.ok /\ calls = <<>>
    /\ before.ok /\ before.via = "registrar" /\ before.tier = "factory"
    /\ last.res.val = before.val

\* C7: when the registrar of name returns without having stored a factory
\* under name, get_component(name) raises the did-not-register RuntimeError
\* naming name, caches nothing and keeps the registrar; every
\* get_component(name) that finds neither instance nor factory calls the
\* registrar.
C7_RegistrarWithoutFactory ==
    [][\A n \in AllNames :
         (/\ DidGet(n)
          /\ ~Has(component_registry, n)
          /\ ~Has(component_factories, n)
          /\ Has(factory_registration_functions, n)) =>
            LET reg_call == Call("registrar", n, factory_registration_functions[n])
                normally == InvokeRegistrar(St, factory_registration_functions[n]).res.ok
            IN  /\ calls' # <<>> /\ calls'[1] = reg_call
                /\ (normally /\ ~Has(component_factories', n)) =>
                      /\ last'.res = Raised(Exc(RuntimeErrorCls, "did_not_register", n, {}))
                      /\ calls' = <<reg_call>>
                      /\ component_registry' = component_registry
                      /\ Has(factory_registration_functions', n)
                      /\ factory_registration_functions'[n]
                            = factory_registration_functions[n]]_vars

\* Two get_component of the same name in a row have failed with the
\* did-not-register error, the second having called the registrar again.
C7_Witness ==
    /\ last.op = "get_component" /\ ~last.res.ok
    /\ last.res.err.kind = "did_not_register"
    /\ before.kind = "did_not_register" /\ before.tier = "registrar"
    /\ Tier(calls) = "registrar"

RegistrationOps ==
    {"register_component_factory", "register_factory_registration_function",
     "register_component", "register_components_from_config"}

\* C8: the registration operations and register_components_from_config call
\* no factory and no registrar and open no pool; a factory stored under
\* name is called only inside get_component(name), and a pool is opened only
\* inside a get_component.
C8_CreationDeferredToFirstUse ==
    [][/\ (ops' = ops + 1 /\ last'.op \in RegistrationOps) =>
            /\ calls' = <<>>
            /\ engine' = engine
            /\ disposed' = disposed
       /\ \A i \in DOMAIN calls' :
            (ops' = ops + 1 /\ calls'[i].kind \in {"factory", "registrar"}) =>
                /\ last'.op = "get_component"
                /\ calls'[i].name = last'.name
       /\ (engine' # engine /\ engine' # NoEngine) => Did("get_component")]_vars

\* The configuration has just been ingested: the registrar is stored under
\* "database", nothing was created and no pool is open.
C8_Witness ==
    /\ last.op = "register_components_from_config"
    /\ Has(factory_registration_functions, "database")
    /\ ~Has(component_factories, "database")
    /\ DOMAIN component_registry = {}
    /\ engine = NoEngine
    /\ nextObj = 1

\* dictionary d2 is d1 but for key k.
SameButFor(d1, d2, k) ==
    /\ DOMAIN d2 \ {k} = DOMAIN d1 \ {k}
    /\ \A m \in DOMAIN d1 \ {k} : d2[m] = d1[m]

EachCallbackOnce(invoked, cb) ==
    /\ Len(invoked) = Cardinality(DOMAIN cb)
    /\ \A n \in DOMAIN cb :
          \E i \in DOMAIN invoked : invoked[i] = Call("cleanup", n, cb[n])

\* C12: cleanup_all_components() invokes the callback of every name of
\* _cleanup_callbacks exactly once, whichever of them raise, and returns
\* without raising.
C12_CleanupSweepsEveryCallback ==
    [][Did("cleanup_all_components") =>
          /\ EachCallbackOnce(calls', cleanup_callbacks)
          /\ last'.res = Returned(0)]_vars

\* close_connection_pool was invoked first and raised (the pool is still
\* open), and the second callback was invoked all the same.
C12_Witness ==
    /\ last.op = "cleanup_all_components"
    /\ last.res = Returned(0)
    /\ Len(calls) = 2
    /\ calls[1].fn = CloseConnectionPool
    /\ calls[2].fn = Callable("release", "")
    /\ engine # NoEngine /\ engine \notin disposed

\* C14: clear_registry() leaves the instances, the factories, the registrars
\* and the cleanup callbacks empty and invokes no cleanup callback (no pool
\* is closed by it); a get_component of any name right after it raises the
\* not-registered KeyError without invoking anything.
C14_ClearIsHardReset ==
    [][/\ Did("clear_registry") =>
            /\ component_registry' = EmptyDict
            /\ component_factories' = EmptyDict
            /\ factory_registration_functions' = EmptyDict
            /\ cleanup_callbacks' = EmptyDict
            /\ calls' = <<>>
            /\ UNCHANGED poolVars
       /\ (last.op = "clear_registry" /\ Did("get_component")) =>
            /\ last'.res = Raised(Exc(KeyErrorCls, "not_registered", last'.name, {}))
            /\ calls' = <<>>]_vars

\* "database" was resolved through create_mysql (its pool is still open),
\* the registry was cleared, and the get_component after the clear failed.
C14_Witness ==
    /\ last.op = "get_component"
    /\ last.name = "database"
    /\ before.kind = "cleared"
    /\ last.res.err.kind = "not_registered"
    /\ engine # NoEngine /\ engine \notin disposed
    /\ ~Has(component_registry, "database")

\* The configuration the step's register_components_from_config was given.
ConfigGiven == last'.args.config

\* Some entry of the list is "up" as the claims say it.
SomeUp(items) == \E j \in DOMAIN items : items[j].status = "up"

\* Some entry of the list counts as up for the code (any case).
CountsAsUp(items) == \E j \in DOMAIN items : Lower(items[j].status) = "up"

\* The component names the code takes for the MySQL database.
MySqlNames == {"mysql", "database", "db"}

\* The configuration holds a MySQL component with an entry that counts as up.
MySqlUp(config) ==
    \E i \in DOMAIN config :
        Lower(config[i].name) \in MySqlNames /\ CountsAsUp(config[i].list)

AllDown(config) ==
    {config[i].name : i \in {j \in DOMAIN config : ~CountsAsUp(config[j].list)}}

\* The list the configuration gives for name.
ListOf(config, name) ==
    config[CHOOSE i \in DOMAIN config : config[i].name = name].list

Made(t) == pc[t] = "done" /\ local[t].made /\ local[t].res.ok

\* C9: whenever two threads have each called the factory in parallel
\* get_component("database") calls, two objects were created, the registry
\* holds the one stored last, and the cleanup at shutdown closes at most one
\* pool, so a created object is left that no cleanup has closed.
C9_RaceCreatesTwoKeepsLast ==
    \A t1, t2 \in Threads :
        (t1 # t2 /\ Made(t1) /\ Made(t2)) =>
            /\ nextObj - 1 >= 2
            /\ last.op = "store"
            /\ Has(component_registry, HandlerComponent)
            /\ component_registry[HandlerComponent] = last.res.val
            /\ stopped =>
                  /\ Cardinality(disposed) <= 1
                  /\ \E o \in 1..(nextObj - 1) : o \notin disposed

\* The interleaving of the claim: both threads passed the instance check,
\* each called the factory, they hold different instances, the registry
\* holds the one stored last and the other one was not closed at shutdown.
C9_Witness ==
    \E t1, t2 \in Threads :
        /\ t1 # t2 /\ Made(t1) /\ Made(t2)
        /\ local[t1].res.val # local[t2].res.val
        /\ last.op = "store" /\ last.res.val = local[t2].res.val
        /\ component_registry[HandlerComponent] = local[t2].res.val
        /\ stopped
        /\ disposed # {}
        /\ local[t1].res.val \notin disposed


(* ------------------------ properties of SpecMeta ---------------------- *)

\* The writes a caller applies to the dict it was handed.
CallerMutations ==
    {"caller_sets_name", "caller_deletes_name", "caller_writes_entry"}

\* C11: no write a caller applies to the dict get_component_metadata handed
\* it (setting or deleting a name, writing the host or status of an entry)
\* changes what a later get_component_metadata() hands back.
C11_Claim ==
    [][Did("caller_sets_name") \/ Did("caller_deletes_name")
       \/ Did("caller_writes_entry") => MetadataSeen' = MetadataSeen]_vars

(* ------------------------ properties of SpecLife ---------------------- *)

\* C13: once the lifespan of the application has ended, every cleanup
\* callback registered in the registry has been called.
C13_Claim ==
    stopped => EachCallbackOnce(calls, cleanup_callbacks)

(* ------------------------ properties of SpecPipe ---------------------- *)

\* The names of the events of request r, in order.
EventNames(r) == [i \in DOMAIN events[r] |-> events[r][i].ev]

\* Request r is being handled: it has arrived and has no response yet.
InFlight(r) == rq[r].pc \notin {"idle", "done"}

\* What request r had bound before its i-th event: its ID if a
\* set_request_id of its own came earlier, nothing otherwise.
BoundBefore(r, i) ==
    IF \E j \in 1..(i - 1) : events[r][j].ev = "bind"
    THEN rq[r].request_id ELSE ""

\* C17: whatever the interleaving of the requests at their awaits, a
\* get_request_id() within the handling of a request gives the ID that
\* request bound last with set_request_id, never the ID of another request,
\* and gives "" where nothing was bound (outside every request).
C17_RequestIdIsTaskLocal ==
    /\ \A r \in Requests : \A i \in DOMAIN events[r] :
          events[r][i].rid = IF events[r][i].ev = "bind" THEN rq[r].request_id
                             ELSE BoundBefore(r, i)
    /\ outside \subseteq {""}

\* Two requests with different IDs are in flight at once, each past its
\* handler, each having read its own ID in the logging stage and in the
\* handler, and a log outside the requests has read "".
C17_Witness ==
    /\ InFlight(1) /\ InFlight(2)
    /\ rq[1].request_id # rq[2].request_id
    /\ \A r \in {1, 2} :
          /\ rq[r].request_id # ""
          /\ EventNames(r) = <<"bind", "log_incoming", "handler">>
          /\ events[r][3].rid = rq[r].request_id
    /\ outside = {""}

\* The place of an event in the order of the stages.
Rank(ev) ==
    CASE ev = "bind" -> 1
      [] ev = "log_incoming" -> 2
      [] ev = "handler" -> 3
      [] ev = "log_completed" -> 4
      [] ev = "stamp" -> 5

\* C18: the events of each request occur in the order bind request ID,
\* incoming-request log, handler, request-completed log, stamp, however the
\* requests interleave; a request that is logged and whose handler gave a
\* response has gone through all five once it is answered, and one whose
\* path is not logged through bind, handler and stamp.
C18_StagesRunInOrder ==
    \A r \in Requests :
        /\ \A i, j \in DOMAIN events[r] :
              i < j => Rank(events[r][i].ev) < Rank(events[r][j].ev)
        /\ (rq[r].pc = "done" /\ ~rq[r].raised) =>
              EventNames(r) =
                  IF rq[r].should_log
                  THEN <<"bind", "log_incoming", "handler", "log_completed", "stamp">>
                  ELSE <<"bind", "handler", "stamp">>

\* Request 1 was answered after all five events, with the ID stamped on its
\* JSON mapping, while request 2 was in the middle of its own.
C18_Witness ==
    /\ rq[1].pc = "done"
    /\ EventNames(1) = <<"bind", "log_incoming", "handler", "log_completed", "stamp">>
    /\ sent[1].body = JsonRender(DictValue(<< <<"message", "Hello World">>,
                                              <<"request_id", rq[1].request_id>> >>))
    /\ InFlight(2)
    /\ EventNames(2) = <<"bind", "log_incoming">>

\* C20: every response that leaves the pipeline carries the header
\* X-Request-ID with the ID bound for its request, whatever the handler did.
C20_Claim ==
    \A r \in Requests :
        rq[r].pc = "done" =>
            GetHeader(sent[r], REQUEST_ID_RESPONSE_HEADER) = rq[r].request_id

(* ------------------------- properties of SpecId ----------------------- *)

\* The value of the first header of the list whose name is lname in lower
\* case, None if there is none.
FirstValue(headers, lname) ==
    LET at == {i \in DOMAIN headers : Lower(headers[i][1]) = lname}
    IN  IF at = {} THEN None
        ELSE headers[CHOOSE i \in at : \A j \in at : i <= j][2]

\* C19 as stated: the ID is the value, verbatim, of the first header of
\* request-id, Request-ID, X-Request-ID, x-request-id that is present; a
\* fresh UUID only if none is present; and it is never empty.
C19_Original ==
    given.applied =>
        /\ chosen =
             IF FirstValue(given.headers, "request-id") # None
             THEN FirstValue(given.headers, "request-id")
             ELSE IF FirstValue(given.headers, "x-request-id") # None
             THEN FirstValue(given.headers, "x-request-id")
             ELSE given.fresh
        /\ chosen # ""

\* C19, amended: the ID is the value, verbatim, of the first header of
\* request-id, Request-ID, X-Request-ID, x-request-id (names compared
\* without regard to case, a repeated header counting with its first value)
\* whose value is not empty; a fresh UUID if none of them is present with a
\* value that is not empty; and it is never empty.
C19_FirstNonEmptyVariantElseUuid ==
    given.applied =>
        /\ chosen =
             IF FirstValue(given.headers, "request-id") \notin {None, ""}
             THEN FirstValue(given.headers, "request-id")
             ELSE IF FirstValue(given.headers, "x-request-id") \notin {None, ""}
             THEN FirstValue(given.headers, "x-request-id")
             ELSE given.fresh
        /\ chosen # ""

\* Request-ID was sent empty and x-request-id with a value: the value of
\* x-request-id was chosen.
C19_Witness ==
    /\ given.applied
    /\ given.headers = << <<"Request-ID", "">>, <<"x-request-id", "xyz">> >>
    /\ chosen = "xyz"
(* ------------------------ properties of SpecLog ----------------------- *)

\* The header names that are masked, in lower case.
MaskedNames == {"authorization", "cookie", "x-api-key", "api-key"}

\* Two header dicts differ at most in the values of masked headers.
SameButSecrets(h1, h2) ==
    /\ Len(h1) = Len(h2)
    /\ \A i \in DOMAIN h1 :
          /\ h1[i][1] = h2[i][1]
          /\ Lower(h1[i][1]) \notin MaskedNames => h1[i][2] = h2[i][2]

\* C24: the headers of the incoming-request log record have the keys of
\* the request's headers, "***" as the value of every key that is
\* authorization, cookie, x-api-key or api-key in lower case, and the
\* request's value for every other key; so two requests that differ only in
\* the values of those headers are logged with the same headers.
C24_SensitiveHeadersMasked ==
    logged.applied =>
        /\ Len(logged.record.headers) = Len(logged.headers)
        /\ \A i \in DOMAIN logged.headers :
              /\ logged.record.headers[i][1] = logged.headers[i][1]
              /\ logged.record.headers[i][2] =
                    IF Lower(logged.headers[i][1]) \in MaskedNames THEN "***"
                    ELSE logged.headers[i][2]
        /\ \A other \in HeaderDicts(MaxHeaders) :
              SameButSecrets(logged.headers, other) =>
                  log_incoming_request("GET", "/", "unknown", other, <<>>,
                                       NoneValue) = logged.record

\* A request with Authorization (written with a capital) and accept was
\* logged: the first is masked, the second is not.
C24_Witness ==
    /\ logged.applied
    /\ logged.headers = << <<"Authorization", "s1">>, <<"accept", "s2">> >>
    /\ logged.record.headers = << <<"Authorization", "***">>, <<"accept", "s2">> >>

\* The content types that contain application/json.
JsonContentTypes ==
    {"application/json", "application/json; charset=utf-8",
     "multipart/related; type=application/json"}

\* The bytes are UTF-8 and their text is one JSON document.
ValidJson(bytes) ==
    /\ Len(bytes) = 1
    /\ bytes[1].kind = "json"
    /\ bytes[1].n = bytes[1].doc.len

\* What the document of valid JSON bytes says: for an object, each key with
\* the value written last for it.
JsonValueOf(bytes) ==
    LET value == bytes[1].doc.value
    IN  IF value.type # "dict" THEN value
        ELSE DictValue(DictOf(value.items))

\* The number of bytes of a given kind among the first k.
RECURSIVE Among(_, _, _)
Among(bytes, kinds, k) ==
    IF bytes = <<>> \/ k <= 0 THEN 0
    ELSE (IF Head(bytes).kind \in kinds
          THEN (IF Head(bytes).n <= k THEN Head(bytes).n ELSE k) ELSE 0)
         + Among(Tail(bytes), kinds, k - Head(bytes).n)

\* C25: parse_request_body(b, ct) is None when b is empty; the parsed JSON
\* value when ct contains application/json and b is valid UTF-8 JSON; and
\* otherwise the UTF-8 decoding of b with the undecodable bytes replaced,
\* cut to its first 500 characters. parse_response_body gives the same.
C25_ParseBody ==
    parsed.applied =>
        LET b == parsed.body_bytes
            cut == IF Length(b) <= 500 THEN Length(b) ELSE 500
        IN  /\ b = <<>> => parsed.request = NoneValue
            /\ (b # <<>> /\ parsed.content_type \in JsonContentTypes
                         /\ ValidJson(b)) =>
                    parsed.request = JsonValueOf(b)
            /\ (b # <<>> /\ ~(parsed.content_type \in JsonContentTypes
                             /\ ValidJson(b))) =>
                    /\ parsed.request.type = "str"
                    /\ Length(parsed.request.text) = cut
                    /\ Among(parsed.request.text, {"bad"}, cut) = 0
                    /\ Among(parsed.request.text, {"replaced"}, cut)
                          = Among(b, {"bad"}, cut)
                    /\ \A kind \in {"char", "json"} :
                          Among(parsed.request.text, {kind}, cut)
                              = Among(b, {kind}, cut)
                    /\ parsed.request.text = Slice(DecodeReplace(b), 500)
            /\ parsed.response = parsed.request

\* A body of 499 characters and two bytes that are no UTF-8, declared as
\* JSON, was parsed: the result is the text of 500 characters, the last of
\* them the replacement character.
C25_Witness ==
    /\ parsed.applied
    /\ parsed.content_type = "application/json"
    /\ parsed.body_bytes = Chars(499) \o BadBytes(2)
    /\ parsed.request = StrValue(<<Run("char", 499, NoDoc), Run("replaced", 1, NoDoc)>>)
    /\ parsed.response = parsed.request

(* ------------------------ properties of SpecBody ---------------------- *)

\* The request of SpecBody has been answered.
Answered == rq[1].pc = "done"

\* The response add_request_id got from call_next declares JSON.
DeclaredJson == StartsWithJson(GetHeader(rq[1].downstream, CONTENT_TYPE_HEADER))

\* The headers of the list other than those named name.
Without(headers, name) == SelectSeq(headers, LAMBDA item : item[1] # name)

\* How many headers of the list are named name.
Count(headers, name) == Len(headers) - Len(Without(headers, name))

\* C21: whenever the response that reaches the ID-stamping stage declares
\* JSON and its body is a JSON mapping M, the body sent parses to a mapping
\* that equals M on every key of M and has exactly one more key,
\* request_id, whose value is the ID of the request.
C21_Claim ==
    (/\ Answered
     /\ rq[1].outcome # "raised"
     /\ DeclaredJson
     /\ ValidJson(rq[1].downstream.body)
     /\ JsonValueOf(rq[1].downstream.body).type = "dict") =>
        LET M == JsonValueOf(rq[1].downstream.body).items IN
        /\ ValidJson(sent[1].body)
        /\ JsonValueOf(sent[1].body).type = "dict"
        /\ LET out == JsonValueOf(sent[1].body).items IN
           /\ \A k \in ItemKeys(M) : DictGet(out, k, None) = DictGet(M, k, None)
           /\ REQUEST_ID_RESPONSE_KEY \notin ItemKeys(M)
           /\ ItemKeys(out) = ItemKeys(M) \cup {REQUEST_ID_RESPONSE_KEY}
           /\ DictGet(out, REQUEST_ID_RESPONSE_KEY, None) = rq[1].request_id

\* C22: when the response that reaches add_request_id declares
\* application/json and its body is not empty and is not valid UTF-8 JSON,
\* the response sent has exactly those bytes as its body, the same status
\* code and content-type, and one content-length header, that of the bytes.
C22_FallbackReemitsBytes ==
    (/\ Answered
     /\ rq[1].outcome # "raised"
     /\ DeclaredJson
     /\ rq[1].downstream.body # <<>>
     /\ ~ValidJson(rq[1].downstream.body)) =>
        /\ sent[1].body = rq[1].downstream.body
        /\ sent[1].status_code = rq[1].downstream.status_code
        /\ GetHeader(sent[1], CONTENT_TYPE_HEADER)
              = GetHeader(rq[1].downstream, CONTENT_TYPE_HEADER)
        /\ Count(sent[1].headers, CONTENT_TYPE_HEADER) = 1
        /\ Count(sent[1].headers, CONTENT_LENGTH_HEADER) = 1
        /\ GetHeader(sent[1], CONTENT_LENGTH_HEADER)
              = ToString(Length(rq[1].downstream.body))
        /\ GetHeader(sent[1], REQUEST_ID_RESPONSE_HEADER) = rq[1].request_id

\* The handler answered with a JSON document followed by a byte that is no
\* UTF-8, declared as application/json: those bytes were sent.
C22_Witness ==
    /\ Answered
    /\ rq[1].outcome = "json_bad_utf8"
    /\ rq[1].read_by_id_stage
    /\ sent[1].body = JsonRender(HelloWorld) \o BadBytes(1)
    /\ sent[1].status_code = 200

\* The response sent is the one add_request_id got, but for the header
\* X-Request-ID: same status, same body, and the same other headers in the
\* same order, with one X-Request-ID that carries the ID of the request.
PassedThrough ==
    /\ sent[1].status_code = rq[1].downstream.status_code
    /\ sent[1].body = rq[1].downstream.body
    /\ Without(sent[1].headers, "x-request-id")
          = Without(rq[1].downstream.headers, "x-request-id")
    /\ Count(sent[1].headers, "x-request-id") = 1
    /\ GetHeader(sent[1], REQUEST_ID_RESPONSE_HEADER) = rq[1].request_id

\* C23 as stated: when the body of the response is empty or its
\* content-type does not start with application/json, add_request_id passes
\* the response through unmodified but for X-Request-ID, and does not read
\* its body stream.
C23_Original ==
    (/\ Answered
     /\ rq[1].outcome # "raised"
     /\ (rq[1].downstream.body = <<>> \/ ~DeclaredJson)) =>
        /\ PassedThrough
        /\ ~rq[1].read_by_id_stage

\* C23, amended: when the content-type of the response does not start with
\* application/json, add_request_id passes the response through unmodified
\* but for X-Request-ID and does not read its body stream; when it does and
\* the body is empty, add_request_id reads the stream to its end, which
\* yields nothing, and passes the response through unmodified but for
\* X-Request-ID.
C23_PassThrough ==
    (Answered /\ rq[1].outcome # "raised") =>
        /\ ~DeclaredJson => (PassedThrough /\ ~rq[1].read_by_id_stage)
        /\ (DeclaredJson /\ rq[1].downstream.body = <<>>) =>
              (PassedThrough /\ rq[1].read_by_id_stage)

\* A text response that already had two X-Request-ID headers went through
\* unread, and a response declared as JSON with an empty body was read.
C23_Witness ==
    /\ Answered
    /\ \/ /\ rq[1].outcome = "text_with_id"
          /\ ~rq[1].read_by_id_stage
          /\ Count(rq[1].downstream.headers, "x-request-id") = 2
          /\ sent[1].body = Chars(5)
       \/ /\ rq[1].outcome = "json_empty"
          /\ rq[1].read_by_id_stage
          /\ sent[1].body = <<>>

\* The headers of the list as a set of pairs.
Pairs(headers) == {headers[i] : i \in 1..Len(headers)}

\* rebuilt is original built anew by a middleware stage: every name is in
\* lower case, the only content-length is the one of the body of rebuilt,
\* and every other header of original is there, its name in lower case and
\* its value unchanged.
NormalizedFrom(original, rebuilt) ==
    /\ \A item \in Pairs(rebuilt.headers) : Lower(item[1]) = item[1]
    /\ Count(rebuilt.headers, CONTENT_LENGTH_HEADER) = 1
    /\ GetHeader(rebuilt, CONTENT_LENGTH_HEADER) = ToString(Length(rebuilt.body))
    /\ \A item \in Pairs(original.headers) :
          Lower(item[1]) # CONTENT_LENGTH_HEADER =>
              <<Lower(item[1]), item[2]>> \in Pairs(rebuilt.headers)

\* C29: every response a middleware stage builds anew (the one log_request
\* builds from the bytes it read, the stamped one and the fallback one of
\* add_request_id) has all its header names in lower case, no
\* content-length taken from the original, and the values of the original
\* under the lowercased names.
C29_Claim ==
    (Answered /\ rq[1].outcome # "raised") =>
        /\ HandlerResponse(rq[1].outcome).body # <<>> =>
              NormalizedFrom(HandlerResponse(rq[1].outcome), rq[1].downstream)
        /\ (/\ DeclaredJson
            /\ rq[1].downstream.body # <<>>
            /\ ~rq[1].raised
            /\ \/ ~ValidJson(rq[1].downstream.body)
               \/ JsonValueOf(rq[1].downstream.body).type = "dict") =>
              NormalizedFrom(SetHeader(rq[1].downstream,
                                       REQUEST_ID_RESPONSE_HEADER,
                                       rq[1].request_id),
                             sent[1])

\* How many events named ev request 1 has.
Times(ev) == Len(SelectSeq(events[1], LAMBDA e : e.ev = ev))

\* C26: when reading the body of the request raises, log_request goes on:
\* the body it captured is None (parsed and raw), the incoming-request line
\* is logged all the same (for a path that is logged), the handler is
\* called, and the response of the handler is the one log_request returns.
C26_BodyReadFailureSwallowed ==
    (Answered /\ ~rq[1].request.readable) =>
        /\ rq[1].request_body = NoneValue
        /\ rq[1].body_bytes = NoBytes
        /\ Times("log_incoming") = IF ShouldLog(rq[1].request.path) THEN 1 ELSE 0
        /\ Times("handler") = 1
        /\ rq[1].outcome # "raised" =>
              /\ rq[1].downstream.status_code
                    = HandlerResponse(rq[1].outcome).status_code
              /\ rq[1].downstream.body = HandlerResponse(rq[1].outcome).body

\* A request with a JSON body that could not be read was logged and
\* answered with the greeting of the handler.
C26_Witness ==
    /\ Answered
    /\ ~rq[1].request.readable
    /\ rq[1].request.body = JsonRender(HelloWorld)
    /\ rq[1].request.path = "/"
    /\ rq[1].outcome = "json_mapping"
    /\ Times("log_incoming") = 1
    /\ rq[1].downstream.body = JsonRender(HelloWorld)

\* C27: whenever log_request has read the body of the request, the request
\* it hands to call_next gives the bytes of that body on every read, and
\* the stream of the connection is read at most once.
C27_FreshBodyStream ==
    rq[1].body_bytes.some =>
        /\ rq[1].body_bytes.bytes = rq[1].request.body
        /\ \A i \in DOMAIN rq[1].read_back :
              rq[1].read_back[i] = Some(rq[1].request.body)
        /\ rq[1].stream_reads <= 1

\* The handler read a body of five characters twice and got it both times.
C27_Witness ==
    /\ Answered
    /\ rq[1].request.body = Chars(5)
    /\ rq[1].read_back = <<Some(Chars(5)), Some(Chars(5))>>
    /\ rq[1].stream_reads = 1

\* C28: for a request whose path is in EXCLUDED_LOG_PATHS neither the
\* incoming-request line nor the request-completed line is logged, while
\* the request ID, the X-Request-ID header, the request_id of the body and
\* the body the handler gets are as for any other path; for a path outside
\* the set both lines are logged, once each.
C28_Claim ==
    Answered =>
        /\ Times("log_incoming")
              = IF rq[1].request.path \in EXCLUDED_LOG_PATHS THEN 0 ELSE 1
        /\ Times("log_completed")
              = IF rq[1].request.path \in EXCLUDED_LOG_PATHS THEN 0 ELSE 1
        /\ rq[1].request_id
              = _get_or_generate_request_id(rq[1].request.headers, uuid4(1))
        /\ Times("bind") = 1
        /\ Times("handler") = 1
        /\ rq[1].body_bytes
              = IF rq[1].request.readable THEN Some(rq[1].request.body) ELSE NoBytes
        /\ \A i \in DOMAIN rq[1].read_back :
              rq[1].request.readable => rq[1].read_back[i] = Some(rq[1].request.body)
        /\ (~rq[1].raised) =>
              /\ Count(sent[1].headers, "x-request-id") = 1
              /\ GetHeader(sent[1], REQUEST_ID_RESPONSE_HEADER) = rq[1].request_id
        /\ rq[1].outcome = "json_mapping" =>
              sent[1].body = JsonRender(DictValue(
                  << <<"message", "Hello World">>,
                     <<"request_id", rq[1].request_id>> >>))

(* ---------------------- properties of SpecSession --------------------- *)

\* How often the with statement of caller c called name on its session.
SessionCalls(c, name) ==
    Len(SelectSeq(sess[c].calls, LAMBDA call : call = name))

\* What the block of caller c or the commit after it raised, if anything.
RaisedInside(c) ==
    IF sess[c].block # NoException THEN sess[c].block ELSE sess[c].commit

\* The with statement of caller c is over and had got a session.
Finished(c) == sess[c].pc = "done" /\ sess[c].acquired

\* The session of caller c was closed once, as the last call on it.
ClosedOnce(c) ==
    /\ SessionCalls(c, "close") = 1
    /\ sess[c].calls[Len(sess[c].calls)] = "close"

\* C30 as stated: every session got through get_db_session is closed
\* exactly once on every way out; it is committed exactly when the block
\* of the caller ends without an exception, and rolled back exactly when
\* the block or the commit raises, and then the exception is re-raised; no
\* session is still checked out when its caller is done.
C30_Original ==
    \A c \in Callers :
        Finished(c) =>
            /\ ClosedOnce(c)
            /\ SessionCalls(c, "commit")
                  = IF sess[c].block = NoException THEN 1 ELSE 0
            /\ SessionCalls(c, "rollback")
                  = IF RaisedInside(c) # NoException THEN 1 ELSE 0
            /\ sess[c].raises = RaisedInside(c)

\* C30, amended: every session got through get_db_session is closed
\* exactly once on every way out, as the last call on it; it is committed
\* exactly when the block ends without an exception; it is rolled back
\* exactly when the block or the commit raises an instance of Exception,
\* and then that exception is re-raised unless the rollback raises, whose
\* exception leaves the statement instead; an exception that is no
\* instance of Exception leaves the statement without a rollback.
C30_SessionDiscipline ==
    \A c \in Callers :
        Finished(c) =>
            /\ ClosedOnce(c)
            /\ SessionCalls(c, "commit")
                  = IF sess[c].block = NoException THEN 1 ELSE 0
            /\ SessionCalls(c, "rollback")
                  = IF IsException(RaisedInside(c)) THEN 1 ELSE 0
            /\ sess[c].raises
                  = IF sess[c].rollback # NoException THEN sess[c].rollback
                    ELSE RaisedInside(c)

\* One caller's block raised HTTPException and its session was rolled back
\* and closed; the other's ended and its session was committed and closed.
C30_Witness ==
    /\ Finished(1) /\ Finished(2)
    /\ sess[1].block = "HTTPException"
    /\ sess[1].calls = <<"rollback", "close">>
    /\ sess[1].raises = "HTTPException"
    /\ sess[2].calls = <<"commit", "close">>
    /\ sess[2].raises = NoException

\* C36: a response declared as application/json whose body is valid JSON
\* but no mapping reaches the client with the body bytes and the status
\* code add_request_id got from call_next, the header X-Request-ID being
\* the only change.
C36_Claim ==
    (/\ Answered
     /\ rq[1].outcome # "raised"
     /\ DeclaredJson
     /\ ValidJson(rq[1].downstream.body)
     /\ JsonValueOf(rq[1].downstream.body).type # "dict") =>
        PassedThrough

\* C38: every header the handler set, content-length apart, reaches the
\* client through log_request and add_request_id with its value, and so
\* does every value of a name that occurs more than once.
C38_Claim ==
    (Answered /\ rq[1].outcome # "raised") =>
        \A item \in Pairs(HandlerResponse(rq[1].outcome).headers) :
            Lower(item[1]) # CONTENT_LENGTH_HEADER =>
                <<Lower(item[1]), item[2]>> \in Pairs(sent[1].headers)

\* The events that write a log record with the request ID.
LogEvents == {"log_incoming", "handler", "log_completed"}

\* C34: every log record written with the request ID while request r is
\* handled (its incoming-request and request-completed records, and the
\* records of its handler) carries the ID of r, which is not empty, and so
\* never the ID of another request, however the requests interleave.
C34_LogsCarryOwnRequestId ==
    \A r \in Requests : \A i \in DOMAIN events[r] :
        events[r][i].ev \in LogEvents =>
            /\ events[r][i].rid = rq[r].request_id
            /\ events[r][i].rid # ""
            /\ \A other \in Requests \ {r} :
                  rq[other].request_id # rq[r].request_id =>
                      events[r][i].rid # rq[other].request_id

\* Two requests with different IDs were handled at once: the second
\* arrived before the first was answered, and each logged its three
\* records with its own ID.
C34_Witness ==
    /\ rq[1].pc = "done" /\ InFlight(2)
    /\ rq[1].request_id = "abc" /\ rq[2].request_id = "uuid-2"
    /\ EventNames(1) = <<"bind", "log_incoming", "handler", "log_completed", "stamp">>
    /\ EventNames(2) = <<"bind", "log_incoming", "handler", "log_completed">>
    /\ \A i \in 2..4 : events[1][i].rid = "abc" /\ events[2][i].rid = "uuid-2"

(* ---------------------- properties of SpecGetBody --------------------- *)

\* The attribute holds a value: it is set and is not None.
HoldsValue(attr) == attr \notin {Absent, NoneValue}

\* C33: get_body(request) returns the body attribute stored on the request
\* itself when it is there, not None and not callable; otherwise it returns
\* request.state.body; and it returns None when neither holds a value.
C33_GetBody ==
    body_got.applied =>
        /\ (HoldsValue(body_got.direct_body) /\ body_got.direct_body # Method) =>
              body_got.body = body_got.direct_body
        /\ (~HoldsValue(body_got.direct_body) \/ body_got.direct_body = Method) =>
              body_got.body = IF body_got.state_body = Absent THEN NoneValue
                         ELSE body_got.state_body
        /\ (~HoldsValue(body_got.direct_body) /\ ~HoldsValue(body_got.state_body)) =>
              body_got.body = NoneValue

\* The request had a dict stored on it and another in request.state: the
\* one stored on it came back.
C33_Witness ==
    /\ body_got.applied
    /\ body_got.direct_body = DictValue(<< <<"test", "data">> >>)
    /\ body_got.state_body = DictValue(<< <<"fallback", "data">> >>)
    /\ body_got.body = DictValue(<< <<"test", "data">> >>)

(* ---------------------- properties of SpecBodies ---------------------- *)

\* The handler of request r has run.
HandlerRan(r) == rq[r].outcome # ""

\* C35: what the handler of a request gets from get_body(request) and from
\* request.state.body is the parsed body log_request captured for that
\* request, the one in its incoming-request record, however the requests
\* interleave; it is None when the body of the request was empty.
C35_HandlerSeesOwnBody ==
    \A r \in Requests :
        HandlerRan(r) =>
            /\ rq[r].handler_body = rq[r].request_body
            /\ rq[r].handler_state_body = rq[r].request_body
            /\ rq[r].should_log => rq[r].logged_body = rq[r].handler_body
            /\ rq[r].request.body = <<>> => rq[r].handler_body = NoneValue
            /\ (rq[r].request.readable /\ rq[r].request.body # <<>>) =>
                  rq[r].handler_body =
                      IF ValidJson(rq[r].request.body)
                      THEN JsonValueOf(rq[r].request.body)
                      ELSE StrValue(rq[r].request.body)

\* Two requests with different JSON bodies were in the stack at once: both
\* bodies were captured before either handler ran, and each handler got
\* the mapping of its own request.
C35_Witness ==
    /\ rq[1].request.body = JsonRender(HelloWorld)
    /\ rq[2].request.body = JsonRender(NotFound)
    /\ HandlerRan(1) /\ HandlerRan(2)
    /\ EventNames(1) = <<"bind", "log_incoming", "handler">>
    /\ rq[1].handler_body = HelloWorld
    /\ rq[2].handler_body = NotFound
    /\ rq[1].logged_body = HelloWorld


(* ---------------- properties of Spec: the pool after cleanup ---------- *)

\* C37: whenever get_component("database") returns a connection pool (the
\* current one or one that was disposed), the pool is initialized, so that
\* get_session() raises nothing, and it is not a pool that
\* close_connection_pool has disposed.
C37_Claim ==
    [][(/\ DidGet("database")
        /\ last'.res.ok
        /\ last'.res.val # NoEngine
        /\ last'.res.val \in disposed' \cup {engine'})
       => /\ engine' # NoEngine
          /\ last'.res.val \notin disposed']_vars

(* ----------------------- properties of SpecConfig --------------------- *)

\* The hosts of the entries with status "up" in the lists of the MySQL
\* components of config.
UpHosts(config) ==
    {config[i].list[j].host :
        <<i, j>> \in {ij \in (DOMAIN config) \X {1, 2} :
            /\ Lower(config[ij[1]].name) \in MySqlNames
            /\ ij[2] \in DOMAIN config[ij[1]].list
            /\ config[ij[1]].list[ij[2]].status = "up"}}

\* C39: after register_components_from_config(cfg), when cfg holds a MySQL
\* component whose list has an entry with status "up", the registrar under
\* "database" connects to the host and port of an entry whose status is
\* "up", never to those of an entry that is down.
C39_Claim ==
    [][(/\ Did("register_components_from_config")
        /\ \E i \in DOMAIN ConfigGiven :
              /\ Lower(ConfigGiven[i].name) \in MySqlNames
              /\ SomeUp(ConfigGiven[i].list))
       => /\ Has(factory_registration_functions', "database")
          /\ factory_registration_functions'["database"].host_port
                \in UpHosts(ConfigGiven)]_vars

(* ----------------------- properties of SpecUsers ---------------------- *)

\* C31: a create_user call that finds its email on a committed user, when
\* it selects or when it inserts, ends with 400 "User with this email
\* already exists" and never with a 500, whatever the interleaving; the
\* call that created that user ended with 200 and its numeric user_id.
C31_Claim ==
    [][\A c \in Callers :
          (/\ creators[c].pc \in {"session", "selected"}
           /\ creators'[c].pc = "done"
           /\ select_by_email(users_table, creators[c].email) # {})
          => /\ creators'[c].reply.status_code = 400
             /\ creators'[c].reply.detail = "User with this email already exists"
             /\ \A row \in select_by_email(users_table, creators[c].email) :
                   \E d \in Callers \ {c} :
                      /\ creators[d].reply.status_code = 200
                      /\ creators[d].reply.user_id = row.id
                      /\ row.id \in Nat \ {0}]_vars

(* ------------------------ properties of SpecEnv ----------------------- *)

\* The file at candidate i of config_files.
Candidate(i) == env_load.fs[ResolvedPath(config_files[i])]

\* C32: once the process has loaded its configuration, for the first
\* candidate that is not missing: if it is malformed JSON or unreadable,
\* InitializeConfig raised and read no later candidate; and a candidate
\* that is missing is passed over, the outcome being that of the candidates
\* after it.
C32_Claim ==
    env_load.applied =>
        \A i \in DOMAIN config_files :
            (\A j \in 1..(i - 1) : Candidate(j) = MissingFile) =>
                /\ Candidate(i).state \in {"malformed", "unreadable"} =>
                      /\ env_load.load.raises # NoException
                      /\ env_load.load.returned = ""
                /\ Candidate(i) = MissingFile =>
                      env_load.load
                          = InitializeConfigFrom(env_load.fs, i + 1, NotLoaded)
====
